---- MODULE Spec2Model ----
(***************************************************************************)
(* A model of peedief/template-engine: the tokenizer, the parser, the      *)
(* expression evaluator (utils.ts) and the tree evaluator, with the        *)
(* caller's objects kept in a heap and the JavaScript global scope kept in *)
(* `ambient`.  Strings are TLA+ strings, read character by character.      *)
(***************************************************************************)
EXTENDS Integers, Sequences, FiniteSets, TLC

VARIABLES heap, ambient, call, result

RECURSIVE Call(_, _)

vars == <<heap, ambient, call, result>>

(***************************************************************************)
(* Strings                                                                 *)
(***************************************************************************)

\* The character of s at (1-based) position i, "" outside s.
Char(s, i) == IF i >= 1 /\ i <= Len(s) THEN SubSeq(s, i, i) ELSE ""

\* s.slice(i-1, j) of JavaScript, with 1-based inclusive bounds, clamped to s.
Slice(s, i, j) ==
  LET lo == IF i < 1 THEN 1 ELSE i
      hi == IF j > Len(s) THEN Len(s) ELSE j
  IN IF lo > hi THEN "" ELSE SubSeq(s, lo, hi)

\* Whether lit occurs in s starting at position i.
StartsAt(s, i, lit) ==
  /\ i >= 1
  /\ i + Len(lit) - 1 <= Len(s)
  /\ Slice(s, i, i + Len(lit) - 1) = lit

\* String.prototype.includes
Includes(s, lit) == \E i \in 1..(Len(s) + 1) : StartsAt(s, i, lit)

\* String.prototype.startsWith
StartsWith(s, lit) == StartsAt(s, 1, lit)

MinOf(S) == CHOOSE x \in S : \A y \in S : x <= y

MaxOf(S) == CHOOSE x \in S : \A y \in S : x >= y

\* The first position >= from at which lit occurs in s, 0 when there is none.
IndexFrom(s, lit, from) ==
  LET hits == {i \in from..(Len(s) + 1) : StartsAt(s, i, lit)}
  IN IF hits = {} THEN 0 ELSE MinOf(hits)

Digits == {"0", "1", "2", "3", "4", "5", "6", "7", "8", "9"}

Lower == {"a", "b", "c", "d", "e", "f", "g", "h", "i", "j", "k", "l", "m",
          "n", "o", "p", "q", "r", "s", "t", "u", "v", "w", "x", "y", "z"}

Upper == {"A", "B", "C", "D", "E", "F", "G", "H", "I", "J", "K", "L", "M",
          "N", "O", "P", "Q", "R", "S", "T", "U", "V", "W", "X", "Y", "Z"}

\* \w of a JavaScript regular expression
WordChars == Digits \cup Lower \cup Upper \cup {"_"}

\* \s of a JavaScript regular expression (the characters the model uses)
SpaceChars == {" ", "\t", "\n"}

\* The quote characters of the regular expressions ['"`]: a TLA+ string cannot
\* hold the backquote, so no input of the model contains one.
Quotes == {"'", "\""}

IsWord(c) == c \in WordChars

IsSpace(c) == c \in SpaceChars

\* Whether every character of s is in the set cs.
AllIn(s, cs) == \A i \in 1..Len(s) : Char(s, i) \in cs

\* String.prototype.trim
Trim(s) ==
  LET keep == {i \in 1..Len(s) : ~IsSpace(Char(s, i))}
  IN IF keep = {} THEN "" ELSE Slice(s, MinOf(keep), MaxOf(keep))

\* str.replace(/[set]/g, c => f[c]): every character in DOMAIN f is replaced
\* (the string is cut in halves, each replaced on its own).
RECURSIVE ReplaceEach(_, _)
ReplaceEach(s, f) ==
  IF Len(s) = 0 THEN ""
  ELSE IF Len(s) = 1 THEN (IF s \in DOMAIN f THEN f[s] ELSE s)
  ELSE ReplaceEach(SubSeq(s, 1, Len(s) \div 2), f)
       \o ReplaceEach(SubSeq(s, Len(s) \div 2 + 1, Len(s)), f)

\* str.replace(/lit/g, by) for a literal pattern lit: the occurrences are
\* replaced from left to right, none overlapping the one before.
RECURSIVE ReplaceAll(_, _, _)
ReplaceAll(s, lit, by) ==
  LET j == IndexFrom(s, lit, 1)
  IN IF j = 0 \/ j > Len(s) THEN s
     ELSE Slice(s, 1, j - 1) \o by \o ReplaceAll(Slice(s, j + Len(lit), Len(s)), lit, by)

\* The decimal digits of a natural number.
RECURSIVE NatToStr(_)
NatToStr(n) ==
  LET d == CHOOSE c \in Digits :
             c = Char("0123456789", (n % 10) + 1)
  IN IF n < 10 THEN d ELSE NatToStr(n \div 10) \o d

\* String(n) for an integer n
IntToStr(n) == IF n < 0 THEN "-" \o NatToStr(0 - n) ELSE NatToStr(n)

\* The value of a string of decimal digits.
RECURSIVE StrToNat(_)
StrToNat(s) ==
  IF s = "" THEN 0
  ELSE StrToNat(Slice(s, 1, Len(s) - 1)) * 10
       + (CHOOSE k \in 0..9 : Char("0123456789", k + 1) = Char(s, Len(s)))

\* The concatenation of a sequence of strings, sep between them (Array.join).
RECURSIVE Join(_, _)
Join(ss, sep) ==
  IF Len(ss) = 0 THEN ""
  ELSE IF Len(ss) = 1 THEN ss[1]
  ELSE ss[1] \o sep \o Join(Tail(ss), sep)

(***************************************************************************)
(* JavaScript values.  Objects and arrays live in the heap, a sequence of  *)
(* objects; a value of type "object" holds an address.                     *)
(***************************************************************************)

Undef == [t |-> "undefined", n |-> 0, s |-> ""]

Null == [t |-> "null", n |-> 0, s |-> ""]

Bool(b) == [t |-> "boolean", n |-> IF b THEN 1 ELSE 0, s |-> ""]

Num(k) == [t |-> "number", n |-> k, s |-> ""]

NaN == [t |-> "number", n |-> 0, s |-> "NaN"]

Str(x) == [t |-> "string", n |-> 0, s |-> x]

Ref(a) == [t |-> "object", n |-> a, s |-> ""]

\* A built-in function value, such as Array.prototype.push or the get helper.
Fn(name) == [t |-> "function", n |-> 0, s |-> name]

\* A property whose accessor throws Error(msg) when read.
Thrower(msg) == [t |-> "getter", n |-> 0, s |-> msg]

\* value == null
IsNullish(v) == v.t \in {"undefined", "null"}

IsNaN(v) == v.t = "number" /\ v.s = "NaN"

Prop(k, v) == [k |-> k, v |-> v]

MkObj(props) == [arr |-> FALSE, props |-> props]

MkArr(elems) ==
  [arr |-> TRUE, props |-> [i \in 1..Len(elems) |-> Prop(IntToStr(i - 1), elems[i])]]

\* Array.isArray
IsArray(h, v) == v.t = "object" /\ h[v.n].arr

\* The own keys of the object at address a, in insertion order.
Keys(h, a) == [i \in 1..Len(h[a].props) |-> h[a].props[i].k]

HasOwn(h, a, k) == \E i \in 1..Len(h[a].props) : h[a].props[i].k = k

\* The stored own property k of the object at address a (Undef when absent).
OwnProp(h, a, k) ==
  IF HasOwn(h, a, k)
  THEN h[a].props[CHOOSE i \in 1..Len(h[a].props) : h[a].props[i].k = k].v
  ELSE Undef

\* array.length of the array at address a
ArrLen(h, a) == Len(h[a].props)

\* String(value): arrays join their elements with ",", null and undefined
\* elements as "", plain objects print as [object Object].
RECURSIVE ToStr(_, _)
ToStr(h, v) ==
  CASE v.t = "undefined" -> "undefined"
    [] v.t = "null" -> "null"
    [] v.t = "boolean" -> IF v.n = 1 THEN "true" ELSE "false"
    [] v.t = "number" -> IF v.s = "NaN" THEN "NaN" ELSE IntToStr(v.n)
    [] v.t = "string" -> v.s
    [] v.t = "function" -> "function " \o v.s \o "() { [native code] }"
    [] v.t = "object" ->
         IF h[v.n].arr
         THEN Join([i \in 1..ArrLen(h, v.n) |->
                      IF IsNullish(h[v.n].props[i].v) THEN ""
                      ELSE Call("ToStr", <<h, h[v.n].props[i].v>>)], ",")
         ELSE "[object Object]"
    [] OTHER -> ""

(***************************************************************************)
(* utils.ts: escapeHtml                                                    *)
(***************************************************************************)

EncodedEntities ==
  {"&amp;", "&lt;", "&gt;", "&quot;", "&#x27;", "&#x2F;", "&#x3A;", "&#x3D;"}

\* /&(amp|lt|gt|quot|#x27|#x2F|#x3A|#x3D);/.test(str)
hasEncodedEntities(str) == \E e \in EncodedEntities : Includes(str, e)

htmlEscapes ==
  [c \in {"&", "<", ">", "\"", "'", "/", ":"} |->
     CASE c = "&" -> "&amp;"
       [] c = "<" -> "&lt;"
       [] c = ">" -> "&gt;"
       [] c = "\"" -> "&quot;"
       [] c = "'" -> "&#x27;"
       [] c = "/" -> "&#x2F;"
       [] c = ":" -> "&#x3A;"]

\* The escaping of a string that is not returned as it is.
escapeBasic(str) ==
  LET escaped == ReplaceEach(str, htmlEscapes)
  IN IF Includes(str, "<") /\ Includes(str, ">")
       THEN ReplaceAll(escaped, "=", "&#x3D;")
     ELSE IF StartsWith(str, "onclick=") /\ Includes(str, "\"")
       THEN ReplaceAll(escaped, "=", "=")
     ELSE ReplaceAll(escaped, "=", "&#x3D;")

\* The carve-out for content that looks encoded already.
looksEncoded(str) ==
  /\ hasEncodedEntities(str)
  /\ Includes(str, "&lt;script&gt;")
  /\ Includes(str, "&lt;/script&gt;")

escapeHtml(h, value) ==
  IF IsNullish(value) THEN ""
  ELSE LET str == Call("ToStr", <<h, value>>)
       IN IF looksEncoded(str) THEN str ELSE escapeBasic(str)

(***************************************************************************)
(* Errors.  cls is the class of the thrown object ("" when nothing was     *)
(* thrown), node the AST node an EvaluationError is tagged with, and       *)
(* start/end the position property when haspos.                            *)
(***************************************************************************)

NoErr == [cls |-> "", msg |-> "", node |-> "", haspos |-> FALSE, start |-> 0, end |-> 0]

\* new Error(msg)
Error(msg) == [NoErr EXCEPT !.cls = "Error", !.msg = msg]

\* new EvaluationError(msg, node)
EvaluationError(msg, node) ==
  [NoErr EXCEPT !.cls = "EvaluationError", !.msg = msg, !.node = node]

\* new TokenizerError(msg, {start, end})
TokenizerError(msg, start, end) ==
  [NoErr EXCEPT !.cls = "TokenizerError", !.msg = msg, !.haspos = TRUE,
                !.start = start, !.end = end]

\* new ParseError(msg, token): the token is kept in .token, not in .position
ParseError(msg, token) ==
  [NoErr EXCEPT !.cls = "ParseError", !.msg = msg, !.node = token]

Failed(e) == e.cls # ""

SecurityMessage == "Access to dangerous globals is not allowed"

(***************************************************************************)
(* Property reads.  An own property is read from the heap; the model keeps *)
(* a few inherited ones (length, and built-in methods of the prototypes).  *)
(***************************************************************************)

ObjectProto == {"toString", "valueOf", "hasOwnProperty"}

ArrayProto == {"push", "pop"} \cup ObjectProto

\* The number of index properties of the array at address a.
IndexCount(h, a) ==
  Cardinality({i \in 1..Len(h[a].props) :
                 h[a].props[i].k # "" /\ AllIn(h[a].props[i].k, Digits)})

\* result[key] for a value of type object: [v, err].
ReadProp(h, v, key) ==
  LET a == v.n
      own == OwnProp(h, a, key)
  IN IF HasOwn(h, a, key)
       THEN IF own.t = "getter" THEN [v |-> Undef, err |-> Error(own.s)]
            ELSE [v |-> own, err |-> NoErr]
     ELSE IF h[a].arr /\ key = "length"
       THEN [v |-> Num(IndexCount(h, a)), err |-> NoErr]
     ELSE IF (h[a].arr /\ key \in ArrayProto) \/ (~h[a].arr /\ key \in ObjectProto)
       THEN [v |-> Fn(key), err |-> NoErr]
     ELSE [v |-> Undef, err |-> NoErr]

(***************************************************************************)
(* utils.ts: get                                                           *)
(***************************************************************************)

\* The end of the run of characters of cs that starts at i (i - 1 when empty).
RunEnd(s, i, cs) ==
  LET stops == {j \in i..Len(s) : Char(s, j) \notin cs}
  IN IF stops # {} THEN MinOf(stops) - 1
     ELSE IF i > Len(s) THEN i - 1
     ELSE Len(s)

\* path.replace(/\[(\d+)\]/g, '.$1')
RECURSIVE normalizePath(_)
normalizePath(path) ==
  LET hits == {i \in 1..Len(path) :
                 /\ Char(path, i) = "["
                 /\ RunEnd(path, i + 1, Digits) >= i + 1
                 /\ Char(path, RunEnd(path, i + 1, Digits) + 1) = "]"}
      i == MinOf(hits)
      e == RunEnd(path, i + 1, Digits)
  IN IF hits = {} THEN path
     ELSE Slice(path, 1, i - 1) \o "." \o Slice(path, i + 1, e)
          \o normalizePath(Slice(path, e + 2, Len(path)))

\* s.split(sep) for a one-character separator
RECURSIVE Split(_, _)
Split(s, sep) ==
  LET j == IndexFrom(s, sep, 1)
  IN IF j = 0 \/ j > Len(s) THEN <<s>>
     ELSE <<Slice(s, 1, j - 1)>> \o Split(Slice(s, j + 1, Len(s)), sep)

\* The loop of get over the keys, from the value reached so far.
RECURSIVE getWalk(_, _, _)
getWalk(h, cur, keys) ==
  IF Len(keys) = 0 THEN [v |-> cur, err |-> NoErr]
  ELSE IF IsNullish(cur) THEN [v |-> Undef, err |-> NoErr]
  ELSE IF cur.t # "object"
    THEN IF cur.t = "string" /\ Head(keys) = "length"
           THEN getWalk(h, Num(Len(cur.s)), Tail(keys))
         ELSE [v |-> Undef, err |-> NoErr]
  ELSE LET r == ReadProp(h, cur, Head(keys))
       IN IF Failed(r.err) THEN r ELSE getWalk(h, r.v, Tail(keys))

\* get(object, path): [v, err]; err is the error of an accessor that threw.
get(h, object, path) ==
  IF IsNullish(object) THEN [v |-> Undef, err |-> NoErr]
  ELSE getWalk(h, object, Split(normalizePath(path), "."))

(***************************************************************************)
(* utils.ts: the denylist of evaluateExpression                            *)
(***************************************************************************)

DANGEROUS_GLOBALS ==
  {"process", "require", "module", "exports", "__dirname", "__filename",
   "Buffer", "setTimeout", "setInterval", "eval", "Function", "constructor",
   "__proto__", "prototype", "toString", "valueOf", "hasOwnProperty", "this",
   "console"}

\* /\bw\b/.test(s) for a word w
HasWord(s, w) ==
  \E i \in 1..Len(s) :
    /\ StartsAt(s, i, w)
    /\ ~IsWord(Char(s, i - 1))
    /\ ~IsWord(Char(s, i + Len(w)))

\* The first position >= i of s that holds no white space.
SkipSpaces(s, i) == RunEnd(s, i, SpaceChars) + 1

\* /\bw\s*c/.test(s): the word w, optional white space, the character c
HasWordThen(s, w, c) ==
  \E i \in 1..Len(s) :
    /\ StartsAt(s, i, w)
    /\ ~IsWord(Char(s, i - 1))
    /\ Char(s, SkipSpaces(s, i + Len(w))) = c

\* /\bw\s+/.test(s): the word w followed by white space
HasWordSpace(s, w) ==
  \E i \in 1..Len(s) :
    /\ StartsAt(s, i, w)
    /\ ~IsWord(Char(s, i - 1))
    /\ IsSpace(Char(s, i + Len(w)))

\* /\[\s*['"`]w['"`]\s*\]/.test(s)
HasQuotedKey(s, w) ==
  \E i \in 1..Len(s) :
    LET q == SkipSpaces(s, i + 1)
    IN /\ Char(s, i) = "["
       /\ Char(s, q) \in Quotes
       /\ StartsAt(s, q + 1, w)
       /\ Char(s, q + 1 + Len(w)) \in Quotes
       /\ Char(s, SkipSpaces(s, q + 2 + Len(w))) = "]"

PatternRuntime ==
  {"process", "require", "module", "exports", "__dirname", "__filename", "Buffer"}

PatternTimers == {"setTimeout", "setInterval", "eval", "Function", "console"}

PatternProto == {"constructor", "__proto__", "prototype"}

\* DANGEROUS_PATTERNS cut down to its first pattern, the names of the Node
\* runtime.
matchesRuntimePattern(expression) ==
  \E w \in PatternRuntime : HasWord(expression, w)

\* DANGEROUS_PATTERNS.some(pattern => pattern.test(expression))
matchesDangerousPattern(expression) ==
  \/ \E w \in PatternRuntime : HasWord(expression, w)
  \/ \E w \in PatternTimers : HasWord(expression, w)
  \/ \E w \in PatternProto : HasWord(expression, w)
  \/ HasWord(expression, "this")
  \/ HasWordThen(expression, "global", ".")
  \/ \E w \in PatternProto \cup {"global"} : HasQuotedKey(expression, w)
  \/ HasWordThen(expression, "function", "(")
  \/ Includes(expression, "=>")
  \/ \E w \in {"var", "let", "const"} : HasWordSpace(expression, w)

\* The first match of /\[([^\]]+)\]/: <<position of "[", position of "]">>,
\* <<0, 0>> when there is none.
computedMatch(expression) ==
  LET opens == {i \in 1..Len(expression) :
                  /\ Char(expression, i) = "["
                  /\ IndexFrom(expression, "]", i + 1) > i + 1}
  IN IF opens = {} THEN <<0, 0>>
     ELSE <<MinOf(opens), IndexFrom(expression, "]", MinOf(opens) + 1)>>

\* s.replace(/['"`]/g, '')
stripQuotes(s) == ReplaceEach(s, [c \in Quotes |-> ""])

\* /^\d+$/.test(s)
IsDigits(s) == s # "" /\ AllIn(s, Digits)

\* /^['"`][^'"`]*['"`]$/.test(s)
IsQuotedLiteral(s) ==
  /\ Len(s) >= 2
  /\ Char(s, 1) \in Quotes
  /\ Char(s, Len(s)) \in Quotes
  /\ \A i \in 2..(Len(s) - 1) : Char(s, i) \notin Quotes

\* The check for computed property access: TRUE when the expression is rejected.
computedAccessBlocked(expression) ==
  LET m == computedMatch(expression)
      inner == Slice(expression, m[1] + 1, m[2] - 1)
      computedExpr == stripQuotes(inner)
  IN /\ m[1] # 0
     /\ \/ computedExpr \in DANGEROUS_GLOBALS
        \/ ~IsDigits(computedExpr) /\ ~IsQuotedLiteral(inner)

IdentStart == Lower \cup Upper \cup {"_", "$"}

IdentChars == IdentStart \cup Digits

PathChars == IdentChars \cup {"-"}

\* The segments (\.[a-zA-Z0-9_$-]+|\[\d+\])* of simplePropertyPattern, up to
\* the end of the string.
RECURSIVE simpleSegments(_, _)
simpleSegments(s, i) ==
  IF i > Len(s) THEN TRUE
  ELSE IF Char(s, i) = "."
    THEN LET e == RunEnd(s, i + 1, PathChars)
         IN e >= i + 1 /\ simpleSegments(s, e + 1)
  ELSE IF Char(s, i) = "["
    THEN LET e == RunEnd(s, i + 1, Digits)
         IN e >= i + 1 /\ Char(s, e + 1) = "]" /\ simpleSegments(s, e + 2)
  ELSE FALSE

\* /^[a-zA-Z_$][a-zA-Z0-9_$-]*(\.[a-zA-Z0-9_$-]+|\[\d+\])*$/.test(s)
simplePropertyPattern(s) ==
  /\ Char(s, 1) \in IdentStart
  /\ simpleSegments(s, RunEnd(s, 2, PathChars) + 1)

\* /^[a-zA-Z_$][a-zA-Z0-9_$]*$/.test(key)
IsIdentifier(key) ==
  /\ Char(key, 1) \in IdentStart
  /\ AllIn(key, IdentChars)

(***************************************************************************)
(* The JavaScript engine behind `new Function('ctx', 'get', funcCode)`:    *)
(* a lexer, a parser and an evaluator for the expressions the model feeds  *)
(* it: identifiers, integer and string literals, member and index access,  *)
(* calls of the built-in methods, ! - * % + - < > <= >= == != === !== &&   *)
(* || and assignment.  The function body runs in sloppy mode in the global *)
(* scope: a free identifier is read from, and assigned in, `ambient`.      *)
(***************************************************************************)

Tok(k, s) == [k |-> k, s |-> s]

JsOps3 == {"===", "!=="}

JsOps2 == {"==", "!=", "<=", ">=", "&&", "||"}

JsOps1 == {"+", "-", "*", "%", "<", ">", "=", "!", "(", ")", "[", "]", ".", ","}

\* The tokens of the source text s from position i; a token of kind "bad"
\* stands for text that is no token of the grammar.
RECURSIVE JsLex(_, _)
JsLex(s, i) ==
  IF i > Len(s) THEN <<>>
  ELSE LET c == Char(s, i)
       IN IF IsSpace(c) THEN Call("JsLex", <<s, i + 1>>)
          ELSE IF c \in IdentStart
            THEN LET e == RunEnd(s, i + 1, IdentChars)
                 IN <<Tok("id", Slice(s, i, e))>> \o Call("JsLex", <<s, e + 1>>)
          ELSE IF c \in Digits
            THEN LET e == RunEnd(s, i + 1, Digits)
                 IN IF Char(s, e + 1) \in IdentStart \cup {"."}
                      THEN <<Tok("bad", "")>>
                    ELSE <<Tok("num", Slice(s, i, e))>> \o Call("JsLex", <<s, e + 1>>)
          ELSE IF c \in Quotes
            THEN LET j == IndexFrom(s, c, i + 1)
                 IN IF j = 0 THEN <<Tok("bad", "")>>
                    ELSE <<Tok("str", Slice(s, i + 1, j - 1))>> \o Call("JsLex", <<s, j + 1>>)
          ELSE IF Slice(s, i, i + 2) \in JsOps3 /\ i + 2 <= Len(s)
            THEN <<Tok("op", Slice(s, i, i + 2))>> \o Call("JsLex", <<s, i + 3>>)
          ELSE IF i + 1 <= Len(s) /\ Slice(s, i, i + 1) \in JsOps2
            THEN <<Tok("op", Slice(s, i, i + 1))>> \o Call("JsLex", <<s, i + 2>>)
          ELSE IF c \in JsOps1
            THEN <<Tok("op", c)>> \o Call("JsLex", <<s, i + 1>>)
          ELSE <<Tok("bad", "")>>

Node(op, s, v, a) == [op |-> op, s |-> s, v |-> v, a |-> a]

NilNode == Node("nil", "", Undef, <<>>)

ParseFail == [ok |-> FALSE, n |-> NilNode, i |-> 0]

ParseOk(n, i) == [ok |-> TRUE, n |-> n, i |-> i]

TokAt(toks, i) == IF i >= 1 /\ i <= Len(toks) THEN toks[i] ELSE Tok("eof", "")

IsOp(t, s) == t.k = "op" /\ t.s = s

\* Words that cannot stand where an expression is expected.
ReservedWords == {"if", "else", "for", "while", "return", "do", "switch", "case"}

\* The binary operators by precedence level, loosest first.
LevelOps(level) ==
  CASE level = 1 -> {"||"}
    [] level = 2 -> {"&&"}
    [] level = 3 -> {"==", "!=", "===", "!=="}
    [] level = 4 -> {"<", ">", "<=", ">="}
    [] level = 5 -> {"+", "-"}
    [] level = 6 -> {"*", "%"}
    [] OTHER -> {}

RECURSIVE ParseAssign(_, _)
RECURSIVE ParseBin(_, _, _)
RECURSIVE ParseBinRest(_, _, _, _)
RECURSIVE ParseUnary(_, _)
RECURSIVE ParsePostfixRest(_, _, _)
RECURSIVE ParsePrimary(_, _)
RECURSIVE ParseArgs(_, _, _)

ParsePrimary(toks, i) ==
  LET t == TokAt(toks, i)
  IN CASE t.k = "num" -> ParseOk(Node("lit", "", Num(StrToNat(t.s)), <<>>), i + 1)
       [] t.k = "str" -> ParseOk(Node("lit", "", Str(t.s), <<>>), i + 1)
       [] t.k = "id" ->
            IF t.s = "true" THEN ParseOk(Node("lit", "", Bool(TRUE), <<>>), i + 1)
            ELSE IF t.s = "false" THEN ParseOk(Node("lit", "", Bool(FALSE), <<>>), i + 1)
            ELSE IF t.s = "null" THEN ParseOk(Node("lit", "", Null, <<>>), i + 1)
            ELSE IF t.s \in ReservedWords THEN ParseFail
            ELSE ParseOk(Node("id", t.s, Undef, <<>>), i + 1)
       [] IsOp(t, "(") ->
            LET e == Call("ParseAssign", <<toks, i + 1>>)
            IN IF e.ok /\ IsOp(TokAt(toks, e.i), ")") THEN ParseOk(e.n, e.i + 1)
               ELSE ParseFail
       [] OTHER -> ParseFail

\* The arguments of a call up to its ")": [ok, a, i].
ParseArgs(toks, i, acc) ==
  IF IsOp(TokAt(toks, i), ")") /\ Len(acc) = 0
    THEN [ok |-> TRUE, a |-> acc, i |-> i + 1]
  ELSE LET e == Call("ParseAssign", <<toks, i>>)
       IN IF ~e.ok THEN [ok |-> FALSE, a |-> <<>>, i |-> 0]
          ELSE IF IsOp(TokAt(toks, e.i), ",")
            THEN Call("ParseArgs", <<toks, e.i + 1, Append(acc, e.n)>>)
          ELSE IF IsOp(TokAt(toks, e.i), ")")
            THEN [ok |-> TRUE, a |-> Append(acc, e.n), i |-> e.i + 1]
          ELSE [ok |-> FALSE, a |-> <<>>, i |-> 0]

ParsePostfixRest(toks, n, i) ==
  LET t == TokAt(toks, i)
  IN IF IsOp(t, ".")
       THEN IF TokAt(toks, i + 1).k = "id"
              THEN Call("ParsePostfixRest", <<toks, Node("member", TokAt(toks, i + 1).s, Undef, <<n>>), i + 2>>)
            ELSE ParseFail
     ELSE IF IsOp(t, "[")
       THEN LET e == Call("ParseAssign", <<toks, i + 1>>)
            IN IF e.ok /\ IsOp(TokAt(toks, e.i), "]")
                 THEN Call("ParsePostfixRest", <<toks, Node("index", "", Undef, <<n, e.n>>), e.i + 1>>)
               ELSE ParseFail
     ELSE IF IsOp(t, "(")
       THEN LET r == Call("ParseArgs", <<toks, i + 1, <<>>>>)
            IN IF r.ok
                 THEN Call("ParsePostfixRest", <<toks, Node("call", "", Undef, <<n>> \o r.a), r.i>>)
               ELSE ParseFail
     ELSE ParseOk(n, i)

ParseUnary(toks, i) ==
  LET t == TokAt(toks, i)
  IN IF IsOp(t, "!") \/ IsOp(t, "-")
       THEN LET u == Call("ParseUnary", <<toks, i + 1>>)
            IN IF u.ok THEN ParseOk(Node("unary", t.s, Undef, <<u.n>>), u.i) ELSE ParseFail
     ELSE LET p == Call("ParsePrimary", <<toks, i>>)
          IN IF p.ok THEN Call("ParsePostfixRest", <<toks, p.n, p.i>>) ELSE ParseFail

ParseBinRest(level, toks, left, i) ==
  LET t == TokAt(toks, i)
  IN IF t.k = "op" /\ t.s \in LevelOps(level)
       THEN LET r == Call("ParseBin", <<level + 1, toks, i + 1>>)
            IN IF r.ok
                 THEN Call("ParseBinRest", <<level, toks, Node("bin", t.s, Undef, <<left, r.n>>), r.i>>)
               ELSE ParseFail
     ELSE ParseOk(left, i)

ParseBin(level, toks, i) ==
  IF level > 6 THEN Call("ParseUnary", <<toks, i>>)
  ELSE LET l == Call("ParseBin", <<level + 1, toks, i>>)
       IN IF l.ok THEN Call("ParseBinRest", <<level, toks, l.n, l.i>>) ELSE ParseFail

ParseAssign(toks, i) ==
  LET l == Call("ParseBin", <<1, toks, i>>)
  IN IF ~l.ok THEN ParseFail
     ELSE IF IsOp(TokAt(toks, l.i), "=")
       THEN IF l.n.op \notin {"id", "member", "index"} THEN ParseFail
            ELSE LET r == Call("ParseAssign", <<toks, l.i + 1>>)
                 IN IF r.ok THEN ParseOk(Node("assign", "", Undef, <<l.n, r.n>>), r.i)
                    ELSE ParseFail
     ELSE l

\* The expression of `return <source>;`: [ok, n]; ~ok is a SyntaxError.
JsParse(source) ==
  LET toks == Call("JsLex", <<source, 1>>)
      r == Call("ParseAssign", <<toks, 1>>)
  IN IF r.ok /\ r.i = Len(toks) + 1 THEN r ELSE ParseFail

\* A thrown JavaScript error of class cls (a subclass of Error).
JsError(cls, msg) == [NoErr EXCEPT !.cls = cls, !.msg = msg]

\* The outcome of evaluating an expression: the machine state after it (the
\* heap h, the global bindings g, the function's locals loc), the value, and
\* the error thrown, if any.
R(st, v, err) == [st |-> st, v |-> v, err |-> err]

\* The index of the binding of name k in a sequence of bindings, 0 when absent.
BindingIndex(bs, k) ==
  IF \E i \in 1..Len(bs) : bs[i].k = k
  THEN CHOOSE i \in 1..Len(bs) : bs[i].k = k
  ELSE 0

\* The printable characters in code-unit order (without the backquote).
Ascii ==
  " !\"#$%&'()*+,-./0123456789:;<=>?@ABCDEFGHIJKLMNOPQRSTUVWXYZ[\\]^_abcdefghijklmnopqrstuvwxyz{|}~"

Rank(c) ==
  IF \E k \in 1..Len(Ascii) : Char(Ascii, k) = c
  THEN CHOOSE k \in 1..Len(Ascii) : Char(Ascii, k) = c
  ELSE 0

\* a < b for strings, by code units
RECURSIVE StrLess(_, _)
StrLess(a, b) ==
  IF b = "" THEN FALSE
  ELSE IF a = "" THEN TRUE
  ELSE IF Char(a, 1) = Char(b, 1) THEN StrLess(Tail(a), Tail(b))
  ELSE Rank(Char(a, 1)) < Rank(Char(b, 1))

\* Boolean(v) of JavaScript: every object, also an empty array, is true.
JsTruthy(v) ==
  CASE v.t \in {"undefined", "null"} -> FALSE
    [] v.t = "boolean" -> v.n = 1
    [] v.t = "number" -> v.s # "NaN" /\ v.n # 0
    [] v.t = "string" -> v.s # ""
    [] OTHER -> TRUE

\* ToPrimitive: an object becomes its string.
ToPrimitive(h, v) == IF v.t \in {"object", "function"} THEN Str(Call("ToStr", <<h, v>>)) ELSE v

\* Number(s) for a string: white space trimmed, "" is 0, decimal integers.
StrToNumber(s) ==
  LET t == Trim(s)
  IN IF t = "" THEN Num(0)
     ELSE IF IsDigits(t) THEN Num(StrToNat(t))
     ELSE IF Char(t, 1) = "-" /\ IsDigits(Tail(t)) THEN Num(0 - StrToNat(Tail(t)))
     ELSE NaN

\* Number(v)
ToNumber(h, v) ==
  LET p == ToPrimitive(h, v)
  IN CASE p.t = "number" -> p
       [] p.t = "boolean" -> Num(p.n)
       [] p.t = "null" -> Num(0)
       [] p.t = "string" -> StrToNumber(p.s)
       [] OTHER -> NaN

\* a === b
StrictEq(a, b) ==
  /\ a.t = b.t
  /\ CASE a.t = "number" -> ~IsNaN(a) /\ ~IsNaN(b) /\ a.n = b.n
       [] a.t = "string" -> a.s = b.s
       [] a.t = "function" -> a.s = b.s
       [] OTHER -> a.n = b.n

\* a == b
LooseEq(h, a, b) ==
  IF a.t = b.t THEN StrictEq(a, b)
  ELSE IF IsNullish(a) \/ IsNullish(b) THEN IsNullish(a) /\ IsNullish(b)
  ELSE LET pa == ToPrimitive(h, a)
           pb == ToPrimitive(h, b)
       IN IF pa.t = "string" /\ pb.t = "string" THEN pa.s = pb.s
          ELSE StrictEq(Call("ToNumber", <<h, pa>>), Call("ToNumber", <<h, pb>>))

\* The remainder of JavaScript: the sign of the dividend.
JsRem(a, b) ==
  LET m == IF b < 0 THEN 0 - b ELSE b
  IN IF a < 0 THEN 0 - ((0 - a) % m) ELSE a % m

\* The value of `a op b` for the binary operators other than && and ||.
BinOp(h, op, a, b) ==
  LET pa == ToPrimitive(h, a)
      pb == ToPrimitive(h, b)
      na == Call("ToNumber", <<h, a>>)
      nb == Call("ToNumber", <<h, b>>)
      nan == IsNaN(na) \/ IsNaN(nb)
      bothStr == pa.t = "string" /\ pb.t = "string"
  IN CASE op = "+" ->
            IF pa.t = "string" \/ pb.t = "string"
              THEN Str(Call("ToStr", <<h, pa>>) \o Call("ToStr", <<h, pb>>))
            ELSE IF nan THEN NaN ELSE Num(na.n + nb.n)
       [] op = "-" -> IF nan THEN NaN ELSE Num(na.n - nb.n)
       [] op = "*" -> IF nan THEN NaN ELSE Num(na.n * nb.n)
       [] op = "%" -> IF nan \/ nb.n = 0 THEN NaN ELSE Num(JsRem(na.n, nb.n))
       [] op = "<" -> IF bothStr THEN Bool(StrLess(pa.s, pb.s))
                      ELSE Bool(~nan /\ na.n < nb.n)
       [] op = ">" -> IF bothStr THEN Bool(StrLess(pb.s, pa.s))
                      ELSE Bool(~nan /\ na.n > nb.n)
       [] op = "<=" -> IF bothStr THEN Bool(~StrLess(pb.s, pa.s))
                       ELSE Bool(~nan /\ na.n <= nb.n)
       [] op = ">=" -> IF bothStr THEN Bool(~StrLess(pa.s, pb.s))
                       ELSE Bool(~nan /\ na.n >= nb.n)
       [] op = "==" -> Bool(LooseEq(h, a, b))
       [] op = "!=" -> Bool(~LooseEq(h, a, b))
       [] op = "===" -> Bool(StrictEq(a, b))
       [] op = "!==" -> Bool(~StrictEq(a, b))
       [] OTHER -> Undef

\* The index properties below n, and the other properties, of an array.
TruncateProps(props, n) ==
  SelectSeq(props, LAMBDA p : ~IsDigits(p.k) \/ StrToNat(p.k) < n)

\* The heap after object[key] = val on the object at address a.  An accessor
\* without a setter ignores the assignment; array.length = n truncates.
SetProp(h, a, key, val) ==
  LET i == BindingIndex(h[a].props, key)
  IN IF i # 0
       THEN IF h[a].props[i].v.t = "getter" THEN h
            ELSE [h EXCEPT ![a].props[i].v = val]
     ELSE IF h[a].arr /\ key = "length"
       THEN IF val.t = "number" /\ ~IsNaN(val) /\ val.n >= 0 /\ val.n <= IndexCount(h, a)
              THEN [h EXCEPT ![a].props = TruncateProps(@, val.n)]
            ELSE h
     ELSE [h EXCEPT ![a].props = Append(@, Prop(key, val))]

\* value[key] for any value.
ReadMember(st, ov, key) ==
  IF IsNullish(ov)
    THEN R(st, Undef, JsError("TypeError", "Cannot read properties of " \o ov.t))
  ELSE IF ov.t = "object"
    THEN LET r == ReadProp(st.h, ov, key) IN R(st, r.v, r.err)
  ELSE IF ov.t = "string"
    THEN IF key = "length" THEN R(st, Num(Len(ov.s)), NoErr)
         ELSE IF IsDigits(key) /\ StrToNat(key) < Len(ov.s)
           THEN R(st, Str(Char(ov.s, StrToNat(key) + 1)), NoErr)
         ELSE R(st, Undef, NoErr)
  ELSE R(st, Undef, NoErr)

\* value[key] = val for any value; assigning on a primitive does nothing.
PutMember(st, ov, key, val) ==
  IF IsNullish(ov)
    THEN R(st, Undef, JsError("TypeError", "Cannot set properties of " \o ov.t))
  ELSE IF ov.t = "object"
    THEN R([st EXCEPT !.h = SetProp(st.h, ov.n, key, val)], val, NoErr)
  ELSE R(st, val, NoErr)

\* The free identifier name, read: a local, then a global binding.
ReadIdent(st, name) ==
  LET i == BindingIndex(st.loc, name)
      j == BindingIndex(st.g, name)
  IN IF i # 0 THEN R(st, st.loc[i].v, NoErr)
     ELSE IF j # 0 THEN R(st, st.g[j].v, NoErr)
     ELSE IF name = "undefined" THEN R(st, Undef, NoErr)
     ELSE IF name = "NaN" THEN R(st, NaN, NoErr)
     ELSE R(st, Undef, JsError("ReferenceError", name \o " is not defined"))

\* name = val: a const local refuses, a parameter changes, and any other name
\* is created or changed in the global scope.
WriteIdent(st, name, val) ==
  LET i == BindingIndex(st.loc, name)
      j == BindingIndex(st.g, name)
  IN IF i # 0
       THEN IF st.loc[i].c
              THEN R(st, Undef, JsError("TypeError", "Assignment to constant variable."))
            ELSE R([st EXCEPT !.loc[i].v = val], val, NoErr)
     ELSE IF j # 0 THEN R([st EXCEPT !.g[j].v = val], val, NoErr)
     ELSE R([st EXCEPT !.g = Append(@, Prop(name, val))], val, NoErr)

ArgAt(args, i) == IF i <= Len(args) THEN args[i] ELSE Undef

\* The array at address a with the values vs pushed.
RECURSIVE PushAll(_, _, _)
PushAll(h, a, vs) ==
  IF Len(vs) = 0 THEN h
  ELSE PushAll([h EXCEPT ![a].props = Append(@, Prop(IntToStr(IndexCount(h, a)), Head(vs)))],
               a, Tail(vs))

\* fn.apply(recv, args) for the built-in functions.
Apply(st, fn, recv, args) ==
  IF fn.t # "function"
    THEN R(st, Undef, JsError("TypeError", "is not a function"))
  ELSE CASE fn.s = "get" ->
              IF IsNullish(ArgAt(args, 1)) \/ IsNullish(ArgAt(args, 2))
                THEN R(st, Undef, NoErr)
              ELSE IF ArgAt(args, 2).t # "string"
                THEN R(st, Undef, JsError("TypeError", "path.replace is not a function"))
              ELSE LET r == Call("get", <<st.h, ArgAt(args, 1), ArgAt(args, 2).s>>)
                   IN R(st, r.v, r.err)
         [] fn.s = "push" /\ IsArray(st.h, recv) ->
              LET h2 == PushAll(st.h, recv.n, args)
              IN R([st EXCEPT !.h = h2], Num(IndexCount(h2, recv.n)), NoErr)
         [] fn.s = "pop" /\ IsArray(st.h, recv) ->
              LET n == IndexCount(st.h, recv.n)
              IN IF n = 0 THEN R(st, Undef, NoErr)
                 ELSE R([st EXCEPT !.h[recv.n].props = TruncateProps(@, n - 1)],
                        OwnProp(st.h, recv.n, IntToStr(n - 1)), NoErr)
         [] fn.s = "toString" /\ ~IsNullish(recv) -> R(st, Str(Call("ToStr", <<st.h, recv>>)), NoErr)
         [] fn.s = "valueOf" /\ ~IsNullish(recv) -> R(st, recv, NoErr)
         [] fn.s = "hasOwnProperty" /\ recv.t = "object" ->
              R(st, Bool(HasOwn(st.h, recv.n, Call("ToStr", <<st.h, ArgAt(args, 1)>>))), NoErr)
         [] OTHER -> R(st, Undef, JsError("TypeError", "Illegal invocation"))

RECURSIVE JsEval(_, _)
RECURSIVE EvalArgs(_, _, _)

\* The arguments of a call, left to right: [st, vs, err].
EvalArgs(nodes, st, acc) ==
  IF Len(nodes) = 0 THEN [st |-> st, vs |-> acc, err |-> NoErr]
  ELSE LET r == Call("JsEval", <<Head(nodes), st>>)
       IN IF Failed(r.err) THEN [st |-> r.st, vs |-> acc, err |-> r.err]
          ELSE Call("EvalArgs", <<Tail(nodes), r.st, Append(acc, r.v)>>)

\* The evaluation of the expression n in the machine state st.
JsEval(n, st) ==
  CASE n.op = "lit" -> R(st, n.v, NoErr)
    [] n.op = "id" -> ReadIdent(st, n.s)
    [] n.op = "member" ->
         LET o == Call("JsEval", <<n.a[1], st>>)
         IN IF Failed(o.err) THEN o ELSE Call("ReadMember", <<o.st, o.v, n.s>>)
    [] n.op = "index" ->
         LET o == Call("JsEval", <<n.a[1], st>>)
             k == Call("JsEval", <<n.a[2], o.st>>)
         IN IF Failed(o.err) THEN o
            ELSE IF Failed(k.err) THEN k
            ELSE Call("ReadMember", <<k.st, o.v, Call("ToStr", <<k.st.h, k.v>>)>>)
    [] n.op = "unary" ->
         LET u == Call("JsEval", <<n.a[1], st>>)
             num == Call("ToNumber", <<u.st.h, u.v>>)
         IN IF Failed(u.err) THEN u
            ELSE IF n.s = "!" THEN R(u.st, Bool(~JsTruthy(u.v)), NoErr)
            ELSE R(u.st, IF IsNaN(num) THEN NaN ELSE Num(0 - num.n), NoErr)
    [] n.op = "bin" ->
         LET l == Call("JsEval", <<n.a[1], st>>)
             r == Call("JsEval", <<n.a[2], l.st>>)
         IN IF Failed(l.err) THEN l
            ELSE IF n.s = "&&" THEN (IF JsTruthy(l.v) THEN r ELSE l)
            ELSE IF n.s = "||" THEN (IF JsTruthy(l.v) THEN l ELSE r)
            ELSE IF Failed(r.err) THEN r
            ELSE R(r.st, Call("BinOp", <<r.st.h, n.s, l.v, r.v>>), NoErr)
    [] n.op = "assign" ->
         LET target == n.a[1]
         IN IF target.op = "id"
              THEN LET r == Call("JsEval", <<n.a[2], st>>)
                   IN IF Failed(r.err) THEN r ELSE WriteIdent(r.st, target.s, r.v)
            ELSE LET o == Call("JsEval", <<target.a[1], st>>)
                     k == IF target.op = "index" THEN Call("JsEval", <<target.a[2], o.st>>)
                          ELSE R(o.st, Str(target.s), NoErr)
                     r == Call("JsEval", <<n.a[2], k.st>>)
                 IN IF Failed(o.err) THEN o
                    ELSE IF Failed(k.err) THEN k
                    ELSE IF Failed(r.err) THEN r
                    ELSE PutMember(r.st, o.v, Call("ToStr", <<r.st.h, k.v>>), r.v)
    [] n.op = "call" ->
         LET callee == n.a[1]
             isMethod == callee.op \in {"member", "index"}
             o == IF isMethod THEN Call("JsEval", <<callee.a[1], st>>) ELSE R(st, Undef, NoErr)
             k == IF callee.op = "index" THEN Call("JsEval", <<callee.a[2], o.st>>)
                  ELSE R(o.st, Str(callee.s), NoErr)
             f == IF isMethod THEN Call("ReadMember", <<k.st, o.v, Call("ToStr", <<k.st.h, k.v>>)>>)
                  ELSE Call("JsEval", <<callee, st>>)
             args == Call("EvalArgs", <<Tail(n.a), f.st, <<>>>>)
         IN IF Failed(o.err) THEN o
            ELSE IF Failed(k.err) THEN k
            ELSE IF Failed(f.err) THEN f
            ELSE IF Failed(args.err) THEN R(args.st, Undef, args.err)
            ELSE Call("Apply", <<args.st, f.v, o.v, args.vs>>)
    [] OTHER -> R(st, Undef, JsError("SyntaxError", "Unexpected token"))

(***************************************************************************)
(* utils.ts: evaluateExpression.  m = [h, g] is the machine state: the     *)
(* heap and the global bindings; the outcome is [h, g, v, err].            *)
(***************************************************************************)

E(h, g, v, err) == [h |-> h, g |-> g, v |-> v, err |-> err]

\* The keys declared as constants of the sandbox, in the order of for...in.
safeKeys(h, context) ==
  IF context.t # "object" THEN <<>>
  ELSE SelectSeq(Keys(h, context.n),
                 LAMBDA key : key \notin DANGEROUS_GLOBALS /\ IsIdentifier(key))

\* Whether `new Function('ctx', 'get', funcCode)` throws a SyntaxError: the
\* expression does not parse, or a declared constant redeclares a parameter
\* or is a reserved word.
funcSyntaxError(h, expression, context) ==
  \/ ~Call("JsParse", <<expression>>).ok
  \/ \E i \in 1..Len(safeKeys(h, context)) :
       safeKeys(h, context)[i] \in {"ctx", "get", "true", "false", "null"} \cup ReservedWords

\* The declarations `const key = ctx["key"];`, in order: [loc, err].
RECURSIVE declarations(_, _, _, _)
declarations(h, context, keys, loc) ==
  IF Len(keys) = 0 THEN [loc |-> loc, err |-> NoErr]
  ELSE LET r == ReadProp(h, context, Head(keys))
       IN IF Failed(r.err) THEN [loc |-> loc, err |-> r.err]
          ELSE declarations(h, context, Tail(keys),
                            Append(loc, [k |-> Head(keys), v |-> r.v, c |-> TRUE]))

\* func(context, get) for the function built from funcCode.
runFunc(m, expression, context) ==
  LET params == <<[k |-> "ctx", v |-> context, c |-> FALSE],
                  [k |-> "get", v |-> Fn("get"), c |-> FALSE]>>
      d == declarations(m.h, context, safeKeys(m.h, context), params)
      r == Call("JsEval", <<Call("JsParse", <<expression>>).n, [h |-> m.h, g |-> m.g, loc |-> d.loc]>>)
  IN IF IsNullish(context) THEN E(m.h, m.g, Undef, NoErr)
     ELSE IF Failed(d.err) THEN E(m.h, m.g, Undef, d.err)
     ELSE E(r.st.h, r.st.g, IF Failed(r.err) THEN Undef ELSE r.v, r.err)

\* The try/catch around the controlled evaluation of a complex expression.
evaluateComplex(m, expression, context) ==
  LET r == IF funcSyntaxError(m.h, expression, context)
             THEN E(m.h, m.g, Undef, JsError("SyntaxError", "Unexpected token"))
           ELSE Call("runFunc", <<m, expression, context>>)
      fallback == Call("get", <<r.h, context, expression>>)
  IN IF ~Failed(r.err) THEN r
     ELSE IF Includes(r.err.msg, "dangerous globals") THEN r
     ELSE IF Call("simplePropertyPattern", <<expression>>)
       THEN E(r.h, r.g, fallback.v, fallback.err)
     ELSE E(r.h, r.g, Undef, Error("Invalid expression"))

evaluateExpression(m, expression, context) ==
  IF expression = "" THEN E(m.h, m.g, Undef, NoErr)
  ELSE IF Call("matchesDangerousPattern", <<expression>>)
    THEN E(m.h, m.g, Undef, Error(SecurityMessage))
  ELSE IF Call("computedAccessBlocked", <<expression>>)
    THEN E(m.h, m.g, Undef, Error(SecurityMessage))
  ELSE IF expression = "global"
    THEN IF context.t = "object" /\ HasOwn(m.h, context.n, "global")
           THEN LET r == ReadProp(m.h, context, "global")
                IN E(m.h, m.g, r.v, r.err)
         ELSE E(m.h, m.g, Undef, Error(SecurityMessage))
  ELSE IF Call("simplePropertyPattern", <<expression>>)
    THEN LET r == Call("get", <<m.h, context, expression>>) IN E(m.h, m.g, r.v, r.err)
  ELSE Call("evaluateComplex", <<m, expression, context>>)

\* isTruthy as JavaScript's own Boolean(value): an empty array is true.
isTruthyAsBoolean(h, value) == JsTruthy(value)

\* utils.ts: isTruthy
isTruthy(h, value) ==
  IF IsNullish(value) THEN FALSE
  ELSE IF value.t = "boolean" THEN value.n = 1
  ELSE IF value.t = "number" THEN value.n # 0 /\ ~IsNaN(value)
  ELSE IF value.t = "string" THEN Len(value.s) > 0
  ELSE IF IsArray(h, value) THEN IndexCount(h, value.n) > 0
  ELSE IF value.t = "object" THEN TRUE
  ELSE JsTruthy(value)

(***************************************************************************)
(* tokenizer.ts.  Positions are 0-based offsets as in the code; the string *)
(* operators above are 1-based.                                            *)
(***************************************************************************)

\* The character U+0000 of the placeholders: a TLA+ string cannot hold it, so
\* the model writes it "@", a character no input of the model contains.
NUL == "@"

OPEN_PLACEHOLDER == NUL \o "ESCAPED_OPEN_BRACE" \o NUL

CLOSE_PLACEHOLDER == NUL \o "ESCAPED_CLOSE_BRACE" \o NUL

\* template.replace(/\\(\{|\})/g, ...): escaped braces become placeholders
RECURSIVE processTemplate(_)
processTemplate(template) ==
  LET hits == {i \in 1..Len(template) :
                 StartsAt(template, i, "\\{") \/ StartsAt(template, i, "\\}")}
      i == MinOf(hits)
  IN IF hits = {} THEN template
     ELSE Slice(template, 1, i - 1)
          \o (IF Char(template, i + 1) = "{" THEN OPEN_PLACEHOLDER ELSE CLOSE_PLACEHOLDER)
          \o processTemplate(Slice(template, i + 2, Len(template)))

\* The placeholders of a run of text turned back into braces.
restoreText(text) ==
  ReplaceAll(ReplaceAll(text, OPEN_PLACEHOLDER, "{"), CLOSE_PLACEHOLDER, "}")

\* Whether open (two characters) at position i is followed by [^c]* and then
\* close, c being the first character of close: the lookahead of the
\* validation pass, and the tail of the marker patterns.
ClosedAt(s, i, c, close) ==
  LET j == IndexFrom(s, c, i + 2)
  IN j # 0 /\ StartsAt(s, j, close)

\* validateUnclosedExpressions: the error thrown, NoErr when there is none.
validateUnclosedExpressions(template) ==
  LET vars0 == {i \in 1..Len(template) :
                  StartsAt(template, i, "{{") /\ ~ClosedAt(template, i, "}", "}}")}
      blocks == {i \in 1..Len(template) :
                   StartsAt(template, i, "{%") /\ ~ClosedAt(template, i, "%", "%}")}
  IN IF vars0 # {}
       THEN TokenizerError("Unclosed variable expression",
                           MinOf(vars0) - 1, MinOf(vars0) + 1)
     ELSE IF blocks # {}
       THEN TokenizerError("Unclosed block expression",
                           MinOf(blocks) - 1, MinOf(blocks) + 1)
     ELSE NoErr

\* The patterns, in the order of the list.
PatternTypes ==
  <<"RAW_HTML", "VARIABLE", "IF_START", "ELSE", "IF_END", "FOR_START",
    "FOR_END", "INVALID_BLOCK">>

\* The last position of the match of /\{\%\s*word\s*\%\}/ at i, 0 when none.
KeywordBlockEnd(s, i, word) ==
  LET p == SkipSpaces(s, i + 2)
      q == SkipSpaces(s, p + Len(word))
  IN IF StartsAt(s, i, "{%") /\ StartsAt(s, p, word) /\ StartsAt(s, q, "%}")
       THEN q + 1 ELSE 0

\* The match of /\{\%\s*word\s+([^%]*)\s*\%\}/ at i: [end, value], end = 0
\* when there is none; value is the captured group.
PayloadBlock(s, i, word) ==
  LET p == SkipSpaces(s, i + 2)
      c == SkipSpaces(s, p + Len(word))
      j == IndexFrom(s, "%", p + Len(word))
  IN IF /\ StartsAt(s, i, "{%")
        /\ StartsAt(s, p, word)
        /\ IsSpace(Char(s, p + Len(word)))
        /\ j # 0
        /\ StartsAt(s, j, "%}")
       THEN [end |-> j + 1, value |-> Slice(s, c, j - 1)]
     ELSE [end |-> 0, value |-> ""]

\* The match of the pattern of type ty that starts at position i: [end, value].
MatchAt(s, i, ty) ==
  LET j == IndexFrom(s, "}", i + (IF ty = "RAW_HTML" THEN 3 ELSE 2))
      none == [end |-> 0, value |-> ""]
  IN CASE ty = "RAW_HTML" ->
            IF StartsAt(s, i, "{{{") /\ j # 0 /\ StartsAt(s, j, "}}}")
              THEN [end |-> j + 2, value |-> ""] ELSE none
       [] ty = "VARIABLE" ->
            IF StartsAt(s, i, "{{") /\ j # 0 /\ StartsAt(s, j, "}}")
              THEN [end |-> j + 1, value |-> Slice(s, SkipSpaces(s, i + 2), j - 1)]
            ELSE none
       [] ty = "IF_START" -> PayloadBlock(s, i, "if")
       [] ty = "FOR_START" -> PayloadBlock(s, i, "for")
       [] ty = "ELSE" -> [end |-> KeywordBlockEnd(s, i, "else"), value |-> ""]
       [] ty = "IF_END" -> [end |-> KeywordBlockEnd(s, i, "endif"), value |-> ""]
       [] ty = "FOR_END" -> [end |-> KeywordBlockEnd(s, i, "endfor"), value |-> ""]
       [] ty = "INVALID_BLOCK" -> [end |-> KeywordBlockEnd(s, i, ""), value |-> ""]

\* TypeAt of a tokenizer that takes a block marker no pattern matches for an
\* invalid block.
TypeAtStrict(s, i) ==
  LET ks == {k \in 1..Len(PatternTypes) : Call("MatchAt", <<s, i, PatternTypes[k]>>).end # 0}
  IN IF ks # {} THEN PatternTypes[MinOf(ks)]
     ELSE IF StartsAt(s, i, "{%") THEN "INVALID_BLOCK"
     ELSE ""

\* The first pattern of the list that matches at position i, "" when none does.
TypeAt(s, i) ==
  LET ks == {k \in 1..Len(PatternTypes) : Call("MatchAt", <<s, i, PatternTypes[k]>>).end # 0}
  IN IF ks = {} THEN "" ELSE PatternTypes[MinOf(ks)]

\* The for loop over the patterns, each searched from lastIndex = from: the
\* earliest match, the first pattern of the list winning a tie (a later one
\* replaces it only when match.index is smaller): [index, type], index = 0
\* when no pattern matches.
earliestMatch(s, from) ==
  LET hits == {i \in from..Len(s) : Char(s, i) = "{" /\ TypeAt(s, i) # ""}
  IN IF hits = {} THEN [index |-> 0, type |-> ""]
     ELSE [index |-> MinOf(hits), type |-> TypeAt(s, MinOf(hits))]

\* Token of a tokenizer whose spans take in the character before the token.
TokenFromBefore(type, value, start, end) ==
  [type |-> type, value |-> value, start |-> IF start > 0 THEN start - 1 ELSE 0, end |-> end]

Token(type, value, start, end) ==
  [type |-> type, value |-> value, start |-> start, end |-> end]

\* The while loop of tokenize from the 1-based position pos: [tokens, err].
RECURSIVE tokenizeLoop(_, _, _)
tokenizeLoop(s, pos, tokens) ==
  IF pos > Len(s) THEN [tokens |-> tokens, err |-> NoErr]
  ELSE
    LET m == Call("earliestMatch", <<s, pos>>)
        hit == Call("MatchAt", <<s, m.index, m.type>>)
        withText ==
          IF m.index > pos
            THEN Append(tokens, Token("TEXT", restoreText(Slice(s, pos, m.index - 1)),
                                      pos - 1, m.index - 1))
          ELSE tokens
        value == IF m.type \in {"VARIABLE", "IF_START", "FOR_START"}
                 THEN Trim(hit.value) ELSE ""
        rest == restoreText(Slice(s, pos, Len(s)))
    IN IF m.index = 0
         THEN [tokens |-> Append(tokens, Token("TEXT", rest, pos - 1, pos - 1 + Len(rest))),
               err |-> NoErr]
       ELSE IF m.type = "INVALID_BLOCK"
         THEN [tokens |-> withText,
               err |-> TokenizerError("Empty block expression", m.index - 1, hit.end)]
       ELSE IF m.type = "RAW_HTML"
         THEN [tokens |-> withText,
               err |-> TokenizerError("Raw HTML not supported", m.index - 1, hit.end)]
       ELSE IF m.type = "VARIABLE" /\ value = ""
         THEN [tokens |-> withText,
               err |-> TokenizerError("Empty variable expression", m.index - 1, hit.end)]
       ELSE IF m.type \in {"IF_START", "FOR_START"} /\ value = ""
         THEN [tokens |-> withText,
               err |-> TokenizerError("Empty block expression", m.index - 1, hit.end)]
       ELSE Call("tokenizeLoop", <<s, hit.end + 1,
                         Append(withText, Token(m.type, value, m.index - 1, hit.end))>>)

\* validateMismatchedBlocks of a stricter tokenizer: an end tag met with no
\* block open is a mismatch too.
RECURSIVE validateMismatchedBlocksStrict(_, _, _)
validateMismatchedBlocksStrict(tokens, i, stack) ==
  IF i > Len(tokens) THEN NoErr
  ELSE LET token == tokens[i]
           expectedEnd == IF Len(stack) = 0 THEN ""
                          ELSE IF stack[Len(stack)] = "IF_START" THEN "IF_END" ELSE "FOR_END"
       IN IF token.type \in {"IF_START", "FOR_START"}
            THEN validateMismatchedBlocksStrict(tokens, i + 1, Append(stack, token.type))
          ELSE IF token.type \in {"IF_END", "FOR_END"}
            THEN IF token.type # expectedEnd
                   THEN TokenizerError("Mismatched block tags", token.start, token.end)
                 ELSE validateMismatchedBlocksStrict(tokens, i + 1,
                                                     SubSeq(stack, 1, Len(stack) - 1))
          ELSE validateMismatchedBlocksStrict(tokens, i + 1, stack)

\* validateMismatchedBlocks, from token i with the stack of open block types.
RECURSIVE validateMismatchedBlocks(_, _, _)
validateMismatchedBlocks(tokens, i, stack) ==
  IF i > Len(tokens) THEN NoErr
  ELSE LET token == tokens[i]
           expectedEnd == IF stack[Len(stack)] = "IF_START" THEN "IF_END" ELSE "FOR_END"
       IN IF token.type \in {"IF_START", "FOR_START"}
            THEN validateMismatchedBlocks(tokens, i + 1, Append(stack, token.type))
          ELSE IF token.type \in {"IF_END", "FOR_END"} /\ Len(stack) > 0
            THEN IF token.type # expectedEnd
                   THEN TokenizerError("Mismatched block tags", token.start, token.end)
                 ELSE validateMismatchedBlocks(tokens, i + 1, SubSeq(stack, 1, Len(stack) - 1))
          ELSE validateMismatchedBlocks(tokens, i + 1, stack)

\* tokenize(template): [tokens, err]
tokenize(template) ==
  LET processedTemplate == processTemplate(template)
      unclosed == Call("validateUnclosedExpressions", <<processedTemplate>>)
      scanned == Call("tokenizeLoop", <<processedTemplate, 1, <<>>>>)
      mismatch == validateMismatchedBlocks(scanned.tokens, 1, <<>>)
  IN IF Failed(unclosed) THEN [tokens |-> <<>>, err |-> unclosed]
     ELSE IF Failed(scanned.err) THEN [tokens |-> <<>>, err |-> scanned.err]
     ELSE IF Failed(mismatch) THEN [tokens |-> <<>>, err |-> mismatch]
     ELSE [tokens |-> scanned.tokens, err |-> NoErr]

(***************************************************************************)
(* parser.ts.  An AST node is a record; value is the text of a TextNode,   *)
(* the expression of a VariableNode, the condition of an IfNode and the    *)
(* iterable of a ForNode; index = "" when the loop names no index.         *)
(***************************************************************************)

AstNode(type, value, item, index, body, elseBody) ==
  [type |-> type, value |-> value, item |-> item, index |-> index,
   body |-> body, elseBody |-> elseBody]

\* The text that identifies a token or a node in an error.
TokenTag(token) == token.type \o " " \o token.value

NodeTag(node) == node.type \o " " \o node.value

\* The header of a for loop: [ok, item, index, iterable], by the two patterns
\* /^(\w+),\s*(\w+)\s+in\s+(.+)$/ and /^(\w+)\s+in\s+(.+)$/.
forHeader(s) ==
  LET e1 == RunEnd(s, 1, WordChars)
      \* "item, index in iterable"
      p2 == SkipSpaces(s, e1 + 2)
      e2 == RunEnd(s, p2, WordChars)
      inA == SkipSpaces(s, e2 + 1)
      restA == SkipSpaces(s, inA + 2)
      okA == /\ e1 >= 1
             /\ Char(s, e1 + 1) = ","
             /\ e2 >= p2
             /\ IsSpace(Char(s, e2 + 1))
             /\ StartsAt(s, inA, "in")
             /\ IsSpace(Char(s, inA + 2))
             /\ restA <= Len(s)
             /\ ~Includes(Slice(s, restA, Len(s)), "\n")
      \* "item in iterable"
      inB == SkipSpaces(s, e1 + 1)
      restB == SkipSpaces(s, inB + 2)
      okB == /\ e1 >= 1
             /\ IsSpace(Char(s, e1 + 1))
             /\ StartsAt(s, inB, "in")
             /\ IsSpace(Char(s, inB + 2))
             /\ restB <= Len(s)
             /\ ~Includes(Slice(s, restB, Len(s)), "\n")
  IN IF okA
       THEN [ok |-> TRUE, item |-> Slice(s, 1, e1), index |-> Slice(s, p2, e2),
             iterable |-> Trim(Slice(s, restA, Len(s)))]
     ELSE IF okB
       THEN [ok |-> TRUE, item |-> Slice(s, 1, e1), index |-> "",
             iterable |-> Trim(Slice(s, restB, Len(s)))]
     ELSE [ok |-> FALSE, item |-> "", index |-> "", iterable |-> ""]

RECURSIVE parseNodes(_, _, _)
RECURSIVE parseIfStatement(_, _)
RECURSIVE parseForLoop(_, _)

\* A ParseError carries the token (its span is kept in start/end), and no
\* position property.
ParseErrorAt(msg, token) ==
  [ParseError(msg, TokenTag(token)) EXCEPT !.start = token.start, !.end = token.end]

\* parseNodes from the 1-based cursor current, nodes being those built so
\* far: [nodes, current, err].
parseNodes(tokens, current, nodes) ==
  IF current > Len(tokens) THEN [nodes |-> nodes, current |-> current, err |-> NoErr]
  ELSE LET token == tokens[current]
       IN CASE token.type = "TEXT" ->
                 Call("parseNodes", <<tokens, current + 1,
                            Append(nodes, AstNode("TextNode", token.value, "", "", <<>>, <<>>))>>)
            [] token.type = "VARIABLE" ->
                 Call("parseNodes", <<tokens, current + 1,
                            Append(nodes, AstNode("VariableNode", token.value, "", "", <<>>, <<>>))>>)
            [] token.type = "IF_START" ->
                 LET r == Call("parseIfStatement", <<tokens, current>>)
                 IN IF Failed(r.err) THEN [nodes |-> nodes, current |-> r.current, err |-> r.err]
                    ELSE Call("parseNodes", <<tokens, r.current, Append(nodes, r.node)>>)
            [] token.type = "FOR_START" ->
                 LET r == Call("parseForLoop", <<tokens, current>>)
                 IN IF Failed(r.err) THEN [nodes |-> nodes, current |-> r.current, err |-> r.err]
                    ELSE Call("parseNodes", <<tokens, r.current, Append(nodes, r.node)>>)
            [] token.type \in {"IF_END", "FOR_END", "ELSE"} ->
                 [nodes |-> nodes, current |-> current, err |-> NoErr]
            [] OTHER ->
                 [nodes |-> nodes, current |-> current,
                  err |-> ParseErrorAt("Unexpected token: " \o token.type, token)]

\* parseIfStatement as a lenient parser would have it: an if block that the
\* input leaves open is closed where its body ends.
parseIfStatementLenient(tokens, current) ==
  LET ifToken == tokens[current]
      condition == Trim(ifToken.value)
      body == Call("parseNodes", <<tokens, current + 1, <<>>>>)
      hasElse == body.current <= Len(tokens) /\ tokens[body.current].type = "ELSE"
      elseBody == IF hasElse THEN Call("parseNodes", <<tokens, body.current + 1, <<>>>>)
                  ELSE [nodes |-> <<>>, current |-> body.current, err |-> NoErr]
      none == AstNode("IfNode", "", "", "", <<>>, <<>>)
      closed == elseBody.current <= Len(tokens) /\ tokens[elseBody.current].type = "IF_END"
  IN IF condition = ""
       THEN [node |-> none, current |-> current + 1,
             err |-> ParseErrorAt("Empty if condition", ifToken)]
     ELSE IF Failed(body.err)
       THEN [node |-> none, current |-> body.current, err |-> body.err]
     ELSE IF Failed(elseBody.err)
       THEN [node |-> none, current |-> elseBody.current, err |-> elseBody.err]
     ELSE [node |-> AstNode("IfNode", condition, "", "", body.nodes, elseBody.nodes),
           current |-> IF closed THEN elseBody.current + 1 ELSE elseBody.current,
           err |-> NoErr]

\* parseIfStatement with the cursor on the IF_START token: [node, current, err].
parseIfStatement(tokens, current) ==
  LET ifToken == tokens[current]
      condition == Trim(ifToken.value)
      body == Call("parseNodes", <<tokens, current + 1, <<>>>>)
      hasElse == body.current <= Len(tokens) /\ tokens[body.current].type = "ELSE"
      elseBody == IF hasElse THEN Call("parseNodes", <<tokens, body.current + 1, <<>>>>)
                  ELSE [nodes |-> <<>>, current |-> body.current, err |-> NoErr]
      none == AstNode("IfNode", "", "", "", <<>>, <<>>)
  IN IF condition = ""
       THEN [node |-> none, current |-> current + 1,
             err |-> ParseErrorAt("Empty if condition", ifToken)]
     ELSE IF Failed(body.err)
       THEN [node |-> none, current |-> body.current, err |-> body.err]
     ELSE IF Failed(elseBody.err)
       THEN [node |-> none, current |-> elseBody.current, err |-> elseBody.err]
     ELSE IF elseBody.current > Len(tokens) \/ tokens[elseBody.current].type # "IF_END"
       THEN [node |-> none, current |-> elseBody.current,
             err |-> ParseErrorAt("Unmatched if statement", ifToken)]
     ELSE [node |-> AstNode("IfNode", condition, "", "", body.nodes, elseBody.nodes),
           current |-> elseBody.current + 1, err |-> NoErr]

\* parseForLoop as a lenient parser would have it: a for loop that the input
\* leaves open is closed where its body ends.
parseForLoopLenient(tokens, current) ==
  LET forToken == tokens[current]
      header == Call("forHeader", <<forToken.value>>)
      body == Call("parseNodes", <<tokens, current + 1, <<>>>>)
      none == AstNode("ForNode", "", "", "", <<>>, <<>>)
      closed == body.current <= Len(tokens) /\ tokens[body.current].type = "FOR_END"
  IN IF ~header.ok
       THEN [node |-> none, current |-> current + 1,
             err |-> ParseErrorAt("Invalid for loop syntax", forToken)]
     ELSE IF Failed(body.err)
       THEN [node |-> none, current |-> body.current, err |-> body.err]
     ELSE [node |-> AstNode("ForNode", header.iterable, header.item, header.index,
                            body.nodes, <<>>),
           current |-> IF closed THEN body.current + 1 ELSE body.current, err |-> NoErr]

\* parseForLoop with the cursor on the FOR_START token: [node, current, err].
parseForLoop(tokens, current) ==
  LET forToken == tokens[current]
      header == Call("forHeader", <<forToken.value>>)
      body == Call("parseNodes", <<tokens, current + 1, <<>>>>)
      none == AstNode("ForNode", "", "", "", <<>>, <<>>)
  IN IF ~header.ok
       THEN [node |-> none, current |-> current + 1,
             err |-> ParseErrorAt("Invalid for loop syntax", forToken)]
     ELSE IF Failed(body.err)
       THEN [node |-> none, current |-> body.current, err |-> body.err]
     ELSE IF body.current > Len(tokens) \/ tokens[body.current].type # "FOR_END"
       THEN [node |-> none, current |-> body.current,
             err |-> ParseErrorAt("Unmatched for loop", forToken)]
     ELSE [node |-> AstNode("ForNode", header.iterable, header.item, header.index,
                            body.nodes, <<>>),
           current |-> body.current + 1, err |-> NoErr]

\* parse(tokens): [nodes, err]
parse(tokens) ==
  LET r == Call("parseNodes", <<tokens, 1, <<>>>>)
      token == tokens[r.current]
  IN IF Failed(r.err) THEN [nodes |-> <<>>, err |-> r.err]
     ELSE IF r.current <= Len(tokens) /\ token.type = "IF_END"
       THEN [nodes |-> <<>>, err |-> ParseErrorAt("Unexpected endif statement", token)]
     ELSE IF r.current <= Len(tokens) /\ token.type = "FOR_END"
       THEN [nodes |-> <<>>, err |-> ParseErrorAt("Unexpected endfor statement", token)]
     ELSE IF r.current <= Len(tokens) /\ token.type = "ELSE"
       THEN [nodes |-> <<>>, err |-> ParseErrorAt("Unexpected else statement", token)]
     ELSE [nodes |-> r.nodes, err |-> NoErr]

(***************************************************************************)
(* evaluator.ts.  m = [h, g] is the machine state; the outcome of a node   *)
(* or of a list of nodes is [h, g, out, err].                              *)
(***************************************************************************)

O(h, g, out, err) == [h |-> h, g |-> g, out |-> out, err |-> err]

\* The most iterations of one loop the model follows: evaluateArrayLoop
\* re-reads array.length, so a body that grows the array never ends.
MaxIterations == 4

\* What the model reports for a loop that passes MaxIterations.
NonTermination == JsError("NonTermination", "loop does not end")

\* The own properties of the object at address a, read one by one as the
\* spread {...context} reads them: [props, err].
RECURSIVE spreadProps(_, _, _, _)
spreadProps(h, a, i, acc) ==
  IF i > Len(h[a].props) THEN [props |-> acc, err |-> NoErr]
  ELSE LET p == h[a].props[i]
       IN IF p.v.t = "getter" THEN [props |-> acc, err |-> Error(p.v.s)]
          ELSE spreadProps(h, a, i + 1, Append(acc, p))

\* props with key set to val: in place when the key exists, else appended.
withProp(props, key, val) ==
  LET i == BindingIndex(props, key)
  IN IF i # 0 THEN [props EXCEPT ![i].v = val] ELSE Append(props, Prop(key, val))

\* The loop object of iteration i of an array of the given length.
loopInfo(i, length) ==
  MkObj(<<Prop("index", Num(i)), Prop("index0", Num(i)), Prop("index1", Num(i + 1)),
          Prop("first", Bool(i = 0)), Prop("last", Bool(i = length - 1)),
          Prop("length", Num(length))>>)

\* Array.from of a string in an engine that takes a string for one element.
charsOfWhole(str) == MkArr(<<Str(str)>>)

\* Array.from(iterable) of a string: the array of its characters.
charsOf(str) == MkArr([i \in 1..Len(str) |-> Str(Char(str, i))])

\* Array.from(iterable) of an array-like object of the given length, its
\* elements read in order: [props, err].
RECURSIVE arrayLike(_, _, _, _, _)
arrayLike(h, v, i, length, acc) ==
  IF i >= length THEN [props |-> acc, err |-> NoErr]
  ELSE LET r == ReadProp(h, v, IntToStr(i))
       IN IF Failed(r.err) THEN [props |-> acc, err |-> r.err]
          ELSE arrayLike(h, v, i + 1, length, Append(acc, Prop(IntToStr(i), r.v)))

RECURSIVE evaluateNodes(_, _, _, _)
RECURSIVE evaluateNode(_, _, _)
RECURSIVE evaluateIfNode(_, _, _)
RECURSIVE evaluateForNode(_, _, _)
RECURSIVE evaluateArrayLoop(_, _, _, _, _, _)

\* evaluateTextNode with the white space around the text removed, as engines
\* with whitespace control do.
evaluateTextNodeTrimmed(m, node) == O(m.h, m.g, Trim(node.value), NoErr)

\* evaluator.ts: evaluateTextNode
evaluateTextNode(m, node) == O(m.h, m.g, node.value, NoErr)

\* evaluateVariable as a macro-expanding engine would have it: a string
\* value is rendered as a template of its own before it is escaped.
evaluateVariableExpanding(m, node, context) ==
  LET r == Call("evaluateExpression", <<m, node.value, context>>)
      again == Call("render", <<[h |-> r.h, g |-> r.g], r.v.s, context>>)
  IN IF Failed(r.err) \/ IsNullish(r.v) THEN O(r.h, r.g, "", NoErr)
     ELSE IF r.v.t = "string" /\ ~Failed(again.err)
       THEN O(again.h, again.g, Call("escapeHtml", <<again.h, Str(again.out)>>), NoErr)
     ELSE O(r.h, r.g, Call("escapeHtml", <<r.h, r.v>>), NoErr)

\* evaluator.ts: evaluateVariable
evaluateVariable(m, node, context) ==
  LET r == Call("evaluateExpression", <<m, node.value, context>>)
  IN IF Failed(r.err)
       THEN IF Includes(r.err.msg, "dangerous globals")
              THEN O(r.h, r.g, "", EvaluationError(SecurityMessage, NodeTag(node)))
            ELSE IF Includes(r.err.msg, "Invalid expression")
              THEN O(r.h, r.g, "",
                     EvaluationError("Invalid expression: " \o node.value, NodeTag(node)))
            ELSE IF Includes(r.err.msg, "Getter error")
              THEN O(r.h, r.g, "", r.err)
            ELSE O(r.h, r.g, "", NoErr)
     ELSE IF IsNullish(r.v) THEN O(r.h, r.g, "", NoErr)
     ELSE O(r.h, r.g, Call("escapeHtml", <<r.h, r.v>>), NoErr)

\* evaluator.ts: evaluate, over the nodes from index i on, out being the
\* result so far.
evaluateNodes(m, nodes, context, out) ==
  IF Len(nodes) = 0 THEN O(m.h, m.g, out, NoErr)
  ELSE LET r == Call("evaluateNode", <<m, Head(nodes), context>>)
       IN IF Failed(r.err) THEN O(r.h, r.g, out, r.err)
          ELSE Call("evaluateNodes", <<[h |-> r.h, g |-> r.g], Tail(nodes), context, out \o r.out>>)

evaluate(m, nodes, context) == Call("evaluateNodes", <<m, nodes, context, "">>)

\* evaluator.ts: evaluateNode
evaluateNode(m, node, context) ==
  CASE node.type = "TextNode" -> evaluateTextNode(m, node)
    [] node.type = "VariableNode" -> Call("evaluateVariable", <<m, node, context>>)
    [] node.type = "IfNode" -> Call("evaluateIfNode", <<m, node, context>>)
    [] node.type = "ForNode" -> Call("evaluateForNode", <<m, node, context>>)
    [] OTHER -> O(m.h, m.g, "undefined", NoErr)

\* evaluateIfNode with a catch block that reports every error as a failure
\* of the condition.
evaluateIfNodeWrapping(m, node, context) ==
  LET c == Call("evaluateExpression", <<m, node.value, context>>)
      mc == [h |-> c.h, g |-> c.g]
      r == IF Failed(c.err) THEN O(c.h, c.g, "", c.err)
           ELSE IF Call("isTruthy", <<c.h, c.v>>) THEN Call("evaluate", <<mc, node.body, context>>)
           ELSE IF Len(node.elseBody) > 0 THEN Call("evaluate", <<mc, node.elseBody, context>>)
           ELSE O(c.h, c.g, "", NoErr)
  IN IF ~Failed(r.err) THEN r
     ELSE O(r.h, r.g, "",
            EvaluationError("Failed to evaluate if condition: " \o node.value, NodeTag(node)))

\* evaluator.ts: evaluateIfNode
evaluateIfNode(m, node, context) ==
  LET c == Call("evaluateExpression", <<m, node.value, context>>)
      mc == [h |-> c.h, g |-> c.g]
      r == IF Failed(c.err) THEN O(c.h, c.g, "", c.err)
           ELSE IF Call("isTruthy", <<c.h, c.v>>) THEN Call("evaluate", <<mc, node.body, context>>)
           ELSE IF Len(node.elseBody) > 0 THEN Call("evaluate", <<mc, node.elseBody, context>>)
           ELSE O(c.h, c.g, "", NoErr)
  IN IF ~Failed(r.err) THEN r
     ELSE IF r.err.cls = "NonTermination" THEN r
     ELSE IF Includes(r.err.msg, "dangerous globals")
       THEN O(r.h, r.g, "", EvaluationError(SecurityMessage, NodeTag(node)))
     ELSE O(r.h, r.g, "",
            EvaluationError("Failed to evaluate if condition: " \o node.value, NodeTag(node)))

\* loopContext of an engine whose loop body sees only the loop's own
\* variables: the enclosing context is replaced, not extended.
loopContextReplacing(h, node, context, array, i) ==
  LET base == withProp(withProp(<<>>, node.item, OwnProp(h, array, IntToStr(i))),
                       "loop", Ref(Len(h) + 1))
      props == IF node.index # "" THEN withProp(base, node.index, Num(i)) ELSE base
  IN [h |-> h \o <<loopInfo(i, IndexCount(h, array)), MkObj(props)>>,
      context |-> Ref(Len(h) + 2), err |-> NoErr]

\* The context of iteration i, {...context, [item]: array[i], loop: {...}}
\* with loopContext[index] = i when the loop names an index, allocated with
\* its loop object: [h, context, err].
loopContext(h, node, context, array, i) ==
  LET sp == spreadProps(h, context.n, 1, <<>>)
      base == withProp(withProp(sp.props, node.item, OwnProp(h, array, IntToStr(i))),
                       "loop", Ref(Len(h) + 1))
      props == IF node.index # "" THEN withProp(base, node.index, Num(i)) ELSE base
  IN [h |-> h \o <<loopInfo(i, IndexCount(h, array)), MkObj(props)>>,
      context |-> Ref(Len(h) + 2), err |-> sp.err]

\* evaluator.ts: evaluateArrayLoop, from iteration i on; array is the address
\* of the array iterated, whose length is read again at every iteration.
evaluateArrayLoop(m, node, context, array, i, out) ==
  LET lc == Call("loopContext", <<m.h, node, context, array, i>>)
      r == Call("evaluate", <<[h |-> lc.h, g |-> m.g], node.body, lc.context>>)
  IN IF i >= IndexCount(m.h, array) THEN O(m.h, m.g, out, NoErr)
     ELSE IF i >= MaxIterations THEN O(m.h, m.g, out, NonTermination)
     ELSE IF Failed(lc.err) THEN O(m.h, m.g, out, lc.err)
     ELSE IF Failed(r.err) THEN O(r.h, r.g, out, r.err)
     ELSE Call("evaluateArrayLoop", <<[h |-> r.h, g |-> r.g], node, context, array, i + 1,
                            out \o r.out>>)

\* evaluator.ts: evaluateForNode
evaluateForNode(m, node, context) ==
  LET it == Call("evaluateExpression", <<m, node.value, context>>)
      mi == [h |-> it.h, g |-> it.g]
      newAddr == Len(it.h) + 1
      len == IF it.v.t = "object" THEN ReadProp(it.h, it.v, "length")
             ELSE [v |-> Undef, err |-> NoErr]
      elems == arrayLike(it.h, it.v, 0, len.v.n, <<>>)
      typeOf == IF it.v.t = "boolean" THEN "boolean"
                ELSE IF it.v.t = "number" THEN "number"
                ELSE IF it.v.t = "function" THEN "function"
                ELSE "object"
      r == IF Failed(it.err) THEN O(it.h, it.g, "", it.err)
           ELSE IF IsNullish(it.v) THEN O(it.h, it.g, "", NoErr)
           ELSE IF IsArray(it.h, it.v)
             THEN Call("evaluateArrayLoop", <<mi, node, context, it.v.n, 0, "">>)
           ELSE IF it.v.t = "string"
             THEN Call("evaluateArrayLoop", <<[h |-> Append(it.h, charsOf(it.v.s)), g |-> it.g],
                                    node, context, newAddr, 0, "">>)
           ELSE IF it.v.t = "object" /\ Failed(len.err)
             THEN O(it.h, it.g, "", len.err)
           ELSE IF it.v.t = "object" /\ len.v.t = "number"
             THEN IF IsNaN(len.v) \/ len.v.n <= 0
                    THEN Call("evaluateArrayLoop", <<[h |-> Append(it.h, MkArr(<<>>)), g |-> it.g],
                                           node, context, newAddr, 0, "">>)
                  ELSE IF Failed(elems.err) THEN O(it.h, it.g, "", elems.err)
                  ELSE Call("evaluateArrayLoop", <<
                         [h |-> Append(it.h, [arr |-> TRUE, props |-> elems.props]),
                          g |-> it.g],
                         node, context, newAddr, 0, "">>)
           ELSE O(it.h, it.g, "",
                  EvaluationError("Value is not iterable: " \o typeOf, NodeTag(node)))
  IN IF ~Failed(r.err) THEN r
     ELSE IF r.err.cls \in {"EvaluationError", "NonTermination"} THEN r
     ELSE IF Includes(r.err.msg, "dangerous globals")
       THEN O(r.h, r.g, "", EvaluationError(SecurityMessage, NodeTag(node)))
     ELSE O(r.h, r.g, "",
            EvaluationError("Failed to evaluate for loop: " \o node.value, NodeTag(node)))

(***************************************************************************)
(* index.ts: render and compile                                            *)
(***************************************************************************)

\* c.toLowerCase() for one character
LowerOf(c) ==
  IF c \in Upper
  THEN Char("abcdefghijklmnopqrstuvwxyz",
            CHOOSE k \in 1..26 : Char("ABCDEFGHIJKLMNOPQRSTUVWXYZ", k) = c)
  ELSE c

\* /word/i.test(s)
IncludesNoCase(s, word) ==
  \E i \in 1..(Len(s) - Len(word) + 1) :
    \A j \in 1..Len(word) : LowerOf(Char(s, i + j - 1)) = Char(word, j)

\* error.message.match(/position|line|column/i)
hasPositionKeywords(msg) ==
  \/ IncludesNoCase(msg, "position")
  \/ IncludesNoCase(msg, "line")
  \/ IncludesNoCase(msg, "column")

\* The catch block without its test for position keywords: every error that
\* has no position gets the prefix.
renderErrorPrefixing(error) ==
  IF error.haspos
    THEN [Error(error.msg \o " at position " \o IntToStr(error.start) \o "-"
                \o IntToStr(error.end))
            EXCEPT !.haspos = TRUE, !.start = error.start, !.end = error.end]
  ELSE Error("Template rendering failed: " \o error.msg)

\* The catch block of render and of a compiled template: the error thrown
\* to the caller for the error caught.
renderError(error) ==
  IF error.haspos
    THEN [Error(error.msg \o " at position " \o IntToStr(error.start) \o "-"
                \o IntToStr(error.end))
            EXCEPT !.haspos = TRUE, !.start = error.start, !.end = error.end]
  ELSE IF error.cls = "NonTermination" THEN error
  ELSE IF hasPositionKeywords(error.msg) THEN error
  ELSE Error("Template rendering failed: " \o error.msg)

\* The context normalised (null and undefined become a new empty object):
\* [h, context].
normalizeContext(h, context) ==
  IF IsNullish(context) THEN [h |-> Append(h, MkObj(<<>>)), context |-> Ref(Len(h) + 1)]
  ELSE [h |-> h, context |-> context]

\* tokenize and parse of an engine that checks every expression against the
\* denylist when the template is parsed.
frontEndEager(template) ==
  LET t == Call("tokenize", <<template>>)
      p == Call("parse", <<t.tokens>>)
  IN IF Failed(t.err) THEN [nodes |-> <<>>, err |-> t.err]
     ELSE IF Failed(p.err) THEN [nodes |-> <<>>, err |-> p.err]
     ELSE IF \E k \in 1..Len(t.tokens) : \E w \in DANGEROUS_GLOBALS :
               Includes(t.tokens[k].value, w)
       THEN [nodes |-> <<>>, err |-> JsError("Error", SecurityMessage)]
     ELSE [nodes |-> p.nodes, err |-> NoErr]

\* tokenize and parse, as render and compile run them: [nodes, err].
frontEnd(template) ==
  LET t == Call("tokenize", <<template>>)
      p == Call("parse", <<t.tokens>>)
  IN IF Failed(t.err) THEN [nodes |-> <<>>, err |-> t.err]
     ELSE IF Failed(p.err) THEN [nodes |-> <<>>, err |-> p.err]
     ELSE [nodes |-> p.nodes, err |-> NoErr]

\* render(template, context): [h, g, out, err]
render(m, template, context) ==
  LET n == normalizeContext(m.h, context)
      f == Call("frontEnd", <<template>>)
      r == Call("evaluate", <<[h |-> n.h, g |-> m.g], f.nodes, n.context>>)
  IN IF n.context.t # "object"
       THEN O(m.h, m.g, "", Error("Context must be an object"))
     ELSE IF Failed(f.err) THEN O(n.h, m.g, "", Call("renderError", <<f.err>>))
     ELSE IF Failed(r.err) THEN O(r.h, r.g, "", Call("renderError", <<r.err>>))
     ELSE r

\* compile(template): the AST the returned function closes over, or the
\* error compile throws (it has no catch block): [nodes, err].
compile(template) == Call("frontEnd", <<template>>)

\* The function compile returns, as an engine that renders what it can has
\* it: a failure of the evaluation gives the empty string.
compiledLenient(m, nodes, context) ==
  LET n == normalizeContext(m.h, context)
      r == Call("evaluate", <<[h |-> n.h, g |-> m.g], nodes, n.context>>)
  IN IF n.context.t # "object"
       THEN O(m.h, m.g, "", Error("Context must be an object"))
     ELSE IF Failed(r.err) THEN O(r.h, r.g, "", NoErr)
     ELSE r

\* The function compile returns, called with a context: [h, g, out, err].
compiled(m, nodes, context) ==
  LET n == normalizeContext(m.h, context)
      r == Call("evaluate", <<[h |-> n.h, g |-> m.g], nodes, n.context>>)
  IN IF n.context.t # "object"
       THEN O(m.h, m.g, "", Error("Context must be an object"))
     ELSE IF Failed(r.err) THEN O(r.h, r.g, "", Call("renderError", <<r.err>>))
     ELSE r

(***************************************************************************)
(* The larger definitions, by name: Call("get", <<h, object, path>>) is   *)
(* get(h, object, path).  The definitions above call one another through  *)
(* this one recursive operator, which keeps the expansion TLC makes of a  *)
(* definition at every place it is used, for its statistics, linear in    *)
(* the size of the module.                                                *)
(***************************************************************************)

Call(fn, a) ==
  CASE fn = "ToStr" -> ToStr(a[1], a[2])
    [] fn = "escapeHtml" -> escapeHtml(a[1], a[2])
    [] fn = "get" -> get(a[1], a[2], a[3])
    [] fn = "matchesDangerousPattern" -> matchesDangerousPattern(a[1])
    [] fn = "computedAccessBlocked" -> computedAccessBlocked(a[1])
    [] fn = "simplePropertyPattern" -> simplePropertyPattern(a[1])
    [] fn = "JsLex" -> JsLex(a[1], a[2])
    [] fn = "JsParse" -> JsParse(a[1])
    [] fn = "ParsePrimary" -> ParsePrimary(a[1], a[2])
    [] fn = "ParseArgs" -> ParseArgs(a[1], a[2], a[3])
    [] fn = "ParsePostfixRest" -> ParsePostfixRest(a[1], a[2], a[3])
    [] fn = "ParseUnary" -> ParseUnary(a[1], a[2])
    [] fn = "ParseBinRest" -> ParseBinRest(a[1], a[2], a[3], a[4])
    [] fn = "ParseBin" -> ParseBin(a[1], a[2], a[3])
    [] fn = "ParseAssign" -> ParseAssign(a[1], a[2])
    [] fn = "ToNumber" -> ToNumber(a[1], a[2])
    [] fn = "BinOp" -> BinOp(a[1], a[2], a[3], a[4])
    [] fn = "Apply" -> Apply(a[1], a[2], a[3], a[4])
    [] fn = "ReadMember" -> ReadMember(a[1], a[2], a[3])
    [] fn = "EvalArgs" -> EvalArgs(a[1], a[2], a[3])
    [] fn = "JsEval" -> JsEval(a[1], a[2])
    [] fn = "evaluateExpression" -> evaluateExpression(a[1], a[2], a[3])
    [] fn = "evaluateComplex" -> evaluateComplex(a[1], a[2], a[3])
    [] fn = "runFunc" -> runFunc(a[1], a[2], a[3])
    [] fn = "isTruthy" -> isTruthy(a[1], a[2])
    [] fn = "tokenize" -> tokenize(a[1])
    [] fn = "tokenizeLoop" -> tokenizeLoop(a[1], a[2], a[3])
    [] fn = "earliestMatch" -> earliestMatch(a[1], a[2])
    [] fn = "MatchAt" -> MatchAt(a[1], a[2], a[3])
    [] fn = "validateUnclosedExpressions" -> validateUnclosedExpressions(a[1])
    [] fn = "parse" -> parse(a[1])
    [] fn = "parseNodes" -> parseNodes(a[1], a[2], a[3])
    [] fn = "parseIfStatement" -> parseIfStatement(a[1], a[2])
    [] fn = "parseForLoop" -> parseForLoop(a[1], a[2])
    [] fn = "forHeader" -> forHeader(a[1])
    [] fn = "evaluate" -> evaluate(a[1], a[2], a[3])
    [] fn = "evaluateNodes" -> evaluateNodes(a[1], a[2], a[3], a[4])
    [] fn = "evaluateNode" -> evaluateNode(a[1], a[2], a[3])
    [] fn = "evaluateVariable" -> evaluateVariable(a[1], a[2], a[3])
    [] fn = "evaluateIfNode" -> evaluateIfNode(a[1], a[2], a[3])
    [] fn = "evaluateForNode" -> evaluateForNode(a[1], a[2], a[3])
    [] fn = "evaluateArrayLoop" -> evaluateArrayLoop(a[1], a[2], a[3], a[4], a[5], a[6])
    [] fn = "render" -> render(a[1], a[2], a[3])
    [] fn = "compiled" -> compiled(a[1], a[2], a[3])
    [] fn = "compile" -> compile(a[1])
    [] fn = "frontEnd" -> frontEnd(a[1])
    [] fn = "renderError" -> renderError(a[1])
    [] fn = "loopContext" -> loopContext(a[1], a[2], a[3], a[4], a[5])

(***************************************************************************)
(* The state machine.  A caller builds a context (the objects of `heap`)   *)
(* and then calls one operation of the library on it; `call` records the   *)
(* call, `result` what it returned or threw, `heap` the objects after it,  *)
(* and `ambient` the bindings of the JavaScript global scope, which        *)
(* outlive every call.                                                     *)
(***************************************************************************)

Idle == [op |-> "idle", template |-> "", expr |-> "", context |-> Undef]

NoResult == [out |-> "", v |-> Undef, err |-> NoErr]

Init ==
  /\ heap = <<>>
  /\ ambient = <<>>
  /\ call = Idle
  /\ result = NoResult

\* The caller builds the objects hp and will pass context to the next call.
BuildContext(hp, context) ==
  /\ call.op = "idle"
  /\ heap' = hp
  /\ call' = [Idle EXCEPT !.op = "built", !.context = context]
  /\ result' = NoResult
  /\ UNCHANGED ambient

\* The caller calls render(template, context).
CallRender(template) ==
  /\ call.op = "built"
  /\ \E r \in {Call("render", <<[h |-> heap, g |-> ambient], template, call.context>>)} :
        /\ heap' = r.h
        /\ ambient' = r.g
        /\ result' = [out |-> r.out, v |-> Undef, err |-> r.err]
  /\ call' = [call EXCEPT !.op = "render", !.template = template]

\* The caller calls compile(template) and then the function it returned,
\* with the context.
CallCompiled(template) ==
  /\ call.op = "built"
  /\ \E c \in {Call("compile", <<template>>)} :
       IF Failed(c.err)
         THEN /\ result' = [out |-> "", v |-> Undef, err |-> c.err]
              /\ UNCHANGED <<heap, ambient>>
       ELSE \E r \in {Call("compiled", <<[h |-> heap, g |-> ambient], c.nodes, call.context>>)} :
              /\ heap' = r.h
              /\ ambient' = r.g
              /\ result' = [out |-> r.out, v |-> Undef, err |-> r.err]
  /\ call' = [call EXCEPT !.op = "compile", !.template = template]

\* The caller calls evaluate(parse(tokenize(template)), context).
CallEvaluate(template) ==
  /\ call.op = "built"
  /\ \E f \in {Call("frontEnd", <<template>>)} :
       IF Failed(f.err)
         THEN /\ result' = [out |-> "", v |-> Undef, err |-> f.err]
              /\ UNCHANGED <<heap, ambient>>
       ELSE \E r \in {Call("evaluate", <<[h |-> heap, g |-> ambient], f.nodes, call.context>>)} :
              /\ heap' = r.h
              /\ ambient' = r.g
              /\ result' = [out |-> r.out, v |-> Undef, err |-> r.err]
  /\ call' = [call EXCEPT !.op = "evaluate", !.template = template]

\* The caller calls parse(tokenize(template)).
CallParse(template) ==
  /\ call.op = "built"
  /\ \E f \in {Call("frontEnd", <<template>>)} :
       result' = [out |-> "", v |-> Undef, err |-> f.err]
  /\ call' = [call EXCEPT !.op = "parse", !.template = template]
  /\ UNCHANGED <<heap, ambient>>

\* The caller calls evaluateExpression(expression, context).
CallEvaluateExpression(expression) ==
  /\ call.op = "built"
  /\ \E r \in {Call("evaluateExpression", <<[h |-> heap, g |-> ambient], expression, call.context>>)} :
        /\ heap' = r.h
        /\ ambient' = r.g
        /\ result' = [out |-> "", v |-> r.v, err |-> r.err]
  /\ call' = [call EXCEPT !.op = "evaluateExpression", !.expr = expression]

\* The caller is done with the result and drops the objects it built.
Release ==
  /\ call.op \notin {"idle", "built"}
  /\ heap' = <<>>
  /\ call' = Idle
  /\ result' = NoResult
  /\ UNCHANGED ambient

\* The objects the caller built, as they are after the call.
CallerPart(h, n) == SubSeq(h, 1, n)

\* A context with the single key `key`.
ContextOf(key, value) == <<MkObj(<<Prop(key, value)>>)>>

\* All the strings made of at most n of the fragments, in any order.
RECURSIVE Compose(_, _)
Compose(fragments, n) ==
  IF n = 0 THEN {""}
  ELSE LET shorter == Compose(fragments, n - 1)
       IN shorter \cup {f \o s : f \in fragments, s \in shorter}

(***************************************************************************)
(* Escaping of interpolated values                                         *)
(***************************************************************************)

\* The pieces the values to escape are made of, and how many a value has.
EscapeFragments ==
  {"<script>", "&lt;script&gt;", "&lt;/script&gt;", "\"", "'", "a=1", "&amp;"}

MaxFragments == 3

EscapeStrings == Compose(EscapeFragments, MaxFragments)

\* Values that are not strings: String(value) is what gets escaped.
EscapeHeaps ==
  {<<MkObj(<<Prop("v", Ref(2))>>), MkArr(<<Str("<b>"), Str("'")>>)>>,
   <<MkObj(<<Prop("v", Ref(2))>>), MkArr(<<Str("&lt;script&gt;&lt;/script&gt;"), Str("<i>")>>)>>,
   ContextOf("v", Num(7)), ContextOf("v", Bool(TRUE))}

BuildEscapeString == \E s \in EscapeStrings : BuildContext(ContextOf("v", Str(s)), Ref(1))

BuildEscapeValue == \E hp \in EscapeHeaps : BuildContext(hp, Ref(1))

RenderVariable == CallRender("{{ v }}")

NextEscape == BuildEscapeString \/ BuildEscapeValue \/ RenderVariable \/ Release

SpecEscape == Init /\ [][NextEscape]_vars

RawHtmlChars == {"<", ">", "\"", "'"}

\* C1: the text a variable interpolation emits contains none of the raw
\* characters < > " ' (so never a literal <script>), whatever the value is,
\* values that hold entity-encoded text included.
C1_VariableOutputIsEscaped ==
  (call.op = "render" /\ ~Failed(result.err))
    => \A c \in RawHtmlChars : ~Includes(result.out, c)

\* C1, reached: a value holding both encoded script tags and a raw one has
\* been rendered.
C1_Reached ==
  /\ call.op = "render"
  /\ ~Failed(result.err)
  /\ Includes(OwnProp(heap, 1, "v").s, "<script>")
  /\ Includes(OwnProp(heap, 1, "v").s, "&lt;/script&gt;")

(***************************************************************************)
(* Values that hold template syntax                                        *)
(***************************************************************************)

\* The pieces of a value that looks like a template, and how many it has.
InjectFragments ==
  {"{{ secret }}", "{% if secret %}{{ secret }}{% endif %}",
   "{% for c in secret %}{{ c }}{% endfor %}", "<b>"}

MaxPayload == 2

InjectPayloads == Compose(InjectFragments, MaxPayload) \ {""}

\* What the context holds under `secret` (Undef: no such key).
Secrets == {Undef, Str("hunter2"), Str("s3cr3t")}

InjectBefore == {"", "<p>"}

InjectAfter == {"", "!"}

\* The context {v: payload, secret: secret}.
InjectHeap(payload, secret) ==
  <<MkObj(IF secret = Undef THEN <<Prop("v", Str(payload))>>
          ELSE <<Prop("v", Str(payload)), Prop("secret", secret)>>)>>

BuildInject ==
  \E p \in InjectPayloads, s \in Secrets : BuildContext(InjectHeap(p, s), Ref(1))

RenderInject ==
  \E pre \in InjectBefore, suf \in InjectAfter : CallRender(pre \o "{{ v }}" \o suf)

NextInject == BuildInject \/ RenderInject \/ Release

SpecInject == Init /\ [][NextInject]_vars

\* C2: the value of an interpolation is not tokenized, parsed or evaluated
\* again: rendering {{ v }}, v a string holding {{ secret }} or a {% %}
\* block, gives the escaped text of v itself, which does not hold the secret
\* and is the same for every value of `secret`.
C2_NoTemplateInjection ==
  call.op = "render" =>
    LET payload == OwnProp(heap, 1, "v").s
    IN /\ ~Failed(result.err)
       /\ \A pre \in InjectBefore, suf \in InjectAfter :
            call.template = pre \o "{{ v }}" \o suf
              => result.out = pre \o escapeHtml(heap, Str(payload)) \o suf
       /\ \A f \in {"{{ secret }}", "{% if secret %}", "{% for c in secret %}"} :
            Includes(payload, f) => Includes(result.out, f)
       /\ \A s \in Secrets \ {Undef} : ~Includes(result.out, s.s)
       /\ \A s \in Secrets :
            render([h |-> InjectHeap(payload, s), g |-> ambient], call.template,
                   Ref(1)).out = result.out

\* C2, reached: a value holding {{ secret }} has been rendered with a secret
\* in the context.
C2_Reached ==
  /\ call.op = "render"
  /\ HasOwn(heap, 1, "secret")
  /\ Includes(OwnProp(heap, 1, "v").s, "{{ secret }}")
  /\ Includes(result.out, "{{ secret }}")

(***************************************************************************)
(* The denylist and the bracket check of evaluateExpression                *)
(***************************************************************************)

\* The names the denylist is documented to reject wherever they stand as a
\* word of the expression.
DeniedWords ==
  {"process", "require", "module", "exports", "__dirname", "__filename", "Buffer",
   "setTimeout", "setInterval", "eval", "Function", "console", "constructor",
   "__proto__", "prototype", "this"}

\* The words of s: its maximal runs of letters, digits and underscores, each
\* as <<first, last>>.
WordRuns(s) ==
  {r \in (1..Len(s)) \X (1..Len(s)) :
     /\ r[1] <= r[2]
     /\ \A k \in r[1]..r[2] : IsWord(Char(s, k))
     /\ ~IsWord(Char(s, r[1] - 1))
     /\ ~IsWord(Char(s, r[2] + 1))}

\* s has the word w followed, after at least `least` white-space characters,
\* by a character of `next` (by anything when `next` is empty).
WordFollowedBy(s, w, least, next) ==
  \E r \in WordRuns(s) :
    /\ Slice(s, r[1], r[2]) = w
    /\ \E k \in (r[2] + 1 + least)..(Len(s) + 1) :
         /\ \A q \in (r[2] + 1)..(k - 1) : IsSpace(Char(s, q))
         /\ next = {} \/ Char(s, k) \in next

\* The expression matches a denylisted pattern, as the documentation lists
\* them.
Denylisted(s) ==
  \/ \E r \in WordRuns(s) : Slice(s, r[1], r[2]) \in DeniedWords
  \/ WordFollowedBy(s, "global", 0, {"."})
  \/ WordFollowedBy(s, "function", 0, {"("})
  \/ Includes(s, "=>")
  \/ \E w \in {"var", "let", "const"} : WordFollowedBy(s, w, 1, {})

\* The expression has a bracket access whose key is neither a numeric
\* literal nor a quoted string literal.
HasDynamicBracket(s) ==
  \E i \in 1..Len(s), j \in 1..Len(s) :
    /\ i < j
    /\ Char(s, i) = "["
    /\ Char(s, j) = "]"
    /\ \A k \in (i + 1)..(j - 1) : Char(s, k) \notin {"[", "]"}
    /\ LET key == Trim(Slice(s, i + 1, j - 1))
       IN ~IsDigits(key) /\ ~IsQuotedLiteral(key)

\* Contexts: a plain one; one that defines a key for every denied word and
\* for `global`; one whose denied keys are accessors that throw when read.
DenyHeaps ==
  {<<MkObj(<<Prop("name", Str("Al")), Prop("user", Ref(2)), Prop("xs", Ref(3))>>),
     MkObj(<<Prop("name", Str("Bob")), Prop("Al", Num(5))>>),
     MkArr(<<Ref(2), Num(8)>>)>>,
   <<MkObj(<<Prop("name", Str("Al")), Prop("global", Str("mine")), Prop("user", Ref(2)),
             Prop("process", Str("p")), Prop("require", Str("r")),
             Prop("module", Str("m")), Prop("exports", Str("e")),
             Prop("__dirname", Str("d")), Prop("__filename", Str("f")),
             Prop("Buffer", Str("b")), Prop("setTimeout", Str("st")),
             Prop("setInterval", Str("si")), Prop("eval", Str("ev")),
             Prop("Function", Str("fn")), Prop("console", Str("c")),
             Prop("constructor", Str("k")), Prop("__proto__", Str("pr")),
             Prop("prototype", Str("pt")), Prop("this", Str("t"))>>),
     MkObj(<<Prop("name", Str("Bob")), Prop("process", Str("up"))>>)>>,
   <<MkObj(<<Prop("name", Str("Al")), Prop("user", Ref(2)),
             Prop("process", Thrower("Getter error: process")),
             Prop("eval", Thrower("Getter error: eval")),
             Prop("console", Thrower("Getter error: console")),
             Prop("this", Thrower("Getter error: this"))>>),
     MkObj(<<Prop("name", Str("Bob")),
             Prop("constructor", Thrower("Getter error: constructor"))>>)>>}

\* Each denied word alone, as a property, as an object, as an operand and as
\* the value assigned; the other denied forms; names that only resemble them.
DenyExpressions ==
  UNION {{w, "user." \o w, w \o ".name", "name + " \o w, "user.name = " \o w} :
           w \in DeniedWords}
  \cup {"global", "global.x", "global .name", "name + global.y", "function(){}",
        "function (a) { return a }", "() => 1", "name=>name", "var x", "let y = 1",
        "const z = name", "user['constructor']"}
  \cup {"name", "user.name", "globals", "processor", "my_process", "user.thisOne",
        "variable", "letter", "name >= 2", "functional", "user.name + '!'",
        "user.name = 'Carl'"}

\* Bracket accesses: literal keys, and keys that are names, first or later.
BracketExpressions ==
  {"user[name]", "user[ name ]", "xs[name]", "xs[0][name]", "xs[0]['name'][name]",
   "user['name'][name]", "xs[1]", "xs[0]", "user['name']", "xs[0]['Al']",
   "xs[0].name", "xs[1] + xs[0][name]"}

BuildDeny == \E hp \in DenyHeaps : BuildContext(hp, Ref(1))

EvaluateDenied == \E e \in DenyExpressions : CallEvaluateExpression(e)

EvaluateBracket == \E e \in BracketExpressions : CallEvaluateExpression(e)

NextDeny == BuildDeny \/ EvaluateDenied \/ EvaluateBracket \/ Release

SpecDeny == Init /\ [][NextDeny]_vars

\* The call threw the security error.
SecurityFailure == Failed(result.err) /\ result.err.msg = SecurityMessage

\* C3: an expression that matches a denylisted pattern fails with the
\* security error before anything is looked up or evaluated (no accessor of
\* the context runs, nothing is assigned), also when the context defines a
\* key of the denied name; the bare expression `global` returns the context's
\* own key `global` when there is one and is rejected otherwise.
C3_DenylistBeforeLookup ==
  call.op = "evaluateExpression" =>
    IF call.expr = "global"
      THEN IF HasOwn(heap, 1, "global")
             THEN ~Failed(result.err) /\ result.v = OwnProp(heap, 1, "global")
           ELSE SecurityFailure
    ELSE Denylisted(call.expr) =>
           /\ SecurityFailure
           /\ result.v = Undef
           /\ heap \in DenyHeaps
           /\ ambient = <<>>

\* C3, reached: a denied word has been evaluated against a context that
\* defines a key of that name, and was rejected.
C3_Reached ==
  /\ call.op = "evaluateExpression"
  /\ call.expr = "process"
  /\ OwnProp(heap, 1, "process") = Str("p")
  /\ SecurityFailure

\* C4: an expression with a bracket access whose key is neither a numeric
\* literal nor a quoted string literal is rejected with the security error,
\* whether that bracket is the first of the expression or a later one.
C4_EveryBracketChecked ==
  (call.op = "evaluateExpression" /\ HasDynamicBracket(call.expr)) => SecurityFailure

(***************************************************************************)
(* The general expression path and the global scope                        *)
(***************************************************************************)

\* What the host program may have put in the global scope before the first
\* call: nothing, or a variable of its own.
AmbientStates == {<<>>, <<Prop("appName", Str("shop"))>>}

InitSandbox ==
  /\ heap = <<>>
  /\ ambient \in AmbientStates
  /\ call = Idle
  /\ result = NoResult

SandboxHeaps ==
  {ContextOf("n", Num(1)),
   <<MkObj(<<Prop("n", Num(2)), Prop("appName", Str("mine"))>>)>>}

\* Expressions of the general path: they read and assign names that are, or
\* are not, keys of the context.
SandboxExpressions ==
  {"n + 1", "get(ctx, 'n') + 1", "ctx.n + n", "missing + 1", "appName + '!'",
   "leak + 1", "leak = 1", "leak = n", "appName = 'x'", "n = 5"}

BuildSandbox == \E hp \in SandboxHeaps : BuildContext(hp, Ref(1))

EvaluateSandbox == \E e \in SandboxExpressions : CallEvaluateExpression(e)

NextSandbox == BuildSandbox \/ EvaluateSandbox \/ Release

SpecSandbox == InitSandbox /\ [][NextSandbox]_vars

\* C5: the general path sees the context's own keys and nothing of the
\* surrounding environment: an evaluation leaves the global scope as it was,
\* and returns or throws what the same expression and context give in an
\* environment that holds nothing, whatever the global scope holds and
\* whatever was evaluated before.
C5_SandboxIsolated ==
  [][call'.op = "evaluateExpression" =>
       /\ ambient' = ambient
       /\ LET alone == evaluateExpression([h |-> heap, g |-> <<>>], call'.expr,
                                          call.context)
          IN result'.v = alone.v /\ result'.err = alone.err]_vars

(***************************************************************************)
(* Security failures inside if and for bodies                              *)
(***************************************************************************)

\* Markers whose expression the denylist rejects: a variable, an if
\* condition, a for iterable, a computed key, the bare `global`.
DeniedMarkers ==
  {"{{ process }}", "{% if this %}a{% endif %}", "{% for y in eval %}b{% endfor %}",
   "{{ xs[n] }}", "{{ global }}", "{{ user.constructor }}"}

\* body inside a block the context below enters: a true condition, the else
\* branch of a false one, a loop over two elements.
Enclose(body) ==
  {"{% if ok %}" \o body \o "{% endif %}",
   "{% if n %}x{% else %}" \o body \o "{% endif %}",
   "{% for x in xs %}-" \o body \o "{% endfor %}"}

MaxDepth == 2

\* The denied markers at every depth of blocks up to d.
RECURSIVE Nested(_)
Nested(d) ==
  IF d = 0 THEN DeniedMarkers
  ELSE Nested(d - 1) \cup UNION {Enclose(body) : body \in Nested(d - 1)}

DeniedTemplates == Nested(MaxDepth)

\* Templates whose denied marker stands in a branch that is not taken, and
\* one with no denied marker.
SkippedTemplates ==
  {"{% if n %}{{ process }}{% endif %}", "{% for x in none %}{{ eval }}{% endfor %}",
   "{% if ok %}{{ user.name }}{% else %}{{ this }}{% endif %}", "{{ user.name }}"}

SecurityHeaps ==
  {<<MkObj(<<Prop("ok", Bool(TRUE)), Prop("n", Num(0)), Prop("xs", Ref(2)),
             Prop("user", Ref(3))>>),
     MkArr(<<Num(1), Num(2)>>), MkObj(<<Prop("name", Str("Al"))>>)>>,
   <<MkObj(<<Prop("ok", Str("yes")), Prop("n", Str("")), Prop("xs", Ref(2)),
             Prop("user", Ref(3)), Prop("process", Str("p"))>>),
     MkArr(<<Str("a"), Ref(3)>>), MkObj(<<Prop("name", Str("Bo"))>>)>>}

BuildSecurity == \E hp \in SecurityHeaps : BuildContext(hp, Ref(1))

RenderDenied == \E t \in DeniedTemplates \cup SkippedTemplates : CallRender(t)

CompiledDenied == \E t \in DeniedTemplates \cup SkippedTemplates : CallCompiled(t)

EvaluateDeniedNodes == \E t \in DeniedTemplates \cup SkippedTemplates : CallEvaluate(t)

NextSecurity ==
  BuildSecurity \/ RenderDenied \/ CompiledDenied \/ EvaluateDeniedNodes \/ Release

SpecSecurity == Init /\ [][NextSecurity]_vars

FrameHeaps ==
  {<<MkObj(<<Prop("user", Ref(2)), Prop("xs", Ref(3)), Prop("items", Ref(4)),
             Prop("n", Num(1))>>),
     MkObj(<<Prop("name", Str("Al"))>>), MkArr(<<Num(1), Num(2)>>), MkArr(<<Ref(5)>>),
     MkObj(<<Prop("v", Num(0))>>)>>,
   <<MkObj(<<Prop("user", Ref(2)), Prop("xs", Ref(3)), Prop("items", Ref(4)),
             Prop("n", Num(0))>>),
     MkObj(<<Prop("name", Str("Bo")), Prop("ok", Bool(FALSE))>>), MkArr(<<Str("a")>>),
     MkArr(<<Ref(5), Ref(6)>>), MkObj(<<Prop("v", Num(5))>>),
     MkObj(<<Prop("v", Num(6))>>)>>,
   <<MkObj(<<Prop("user", Ref(2)), Prop("xs", Ref(3)), Prop("items", Ref(4)),
             Prop("n", Num(2))>>),
     MkObj(<<Prop("name", Str("Cy"))>>), MkArr(<<>>), MkArr(<<>>)>>}

\* Templates whose expressions pass the denylist: they read, and they assign
\* to, the context, the objects it holds and the per-iteration context.
FrameTemplates ==
  {"{{ user.name }}", "{{ n + 1 }}", "{% for x in xs %}{{ x }}{% endfor %}",
   "{% for x in items %}{{ x.v + 1 }}{% endfor %}",
   "{{ user.name = 'B' }}", "{{ xs.push(1) }}", "{{ ctx['n'] = 2 }}",
   "{{ ctx.extra = 1 }}", "{% if user.ok = 1 %}a{% endif %}",
   "{% for x in items %}{{ x.v = 1 }}{% endfor %}",
   "{% for x in xs %}{{ user.name = x }}{% endfor %}",
   "{% for x in xs %}{{ loop.index = 9 }}{% endfor %}",
   "{% for x in xs %}{{ ctx.seen = x }}{% endfor %}",
   "{% for x, i in xs %}{{ i = 5 }}{% endfor %}"}

BuildFrame == \E hp \in FrameHeaps : BuildContext(hp, Ref(1))

RenderFrame == \E t \in FrameTemplates : CallRender(t)

CompiledFrame == \E t \in FrameTemplates : CallCompiled(t)

EvaluateFrame == \E t \in FrameTemplates : CallEvaluate(t)

NextFrame == BuildFrame \/ RenderFrame \/ CompiledFrame \/ EvaluateFrame \/ Release

SpecFrame == Init /\ [][NextFrame]_vars

\* C7: evaluate, render and a compiled template leave the caller's context
\* as it was: after the call the objects the caller built (the top-level
\* mapping and all that is reachable from it) are what they were before it.
C7_ContextUnchanged ==
  [][call'.op \in {"evaluate", "render", "compile"}
       => CallerPart(heap', Len(heap)) = heap]_vars

(***************************************************************************)
(* Templates of literal text                                               *)
(***************************************************************************)

\* The pieces of the templates: text, single braces, escaped braces, lone
\* opening and closing sequences, the text of a placeholder, whole markers.
TextFragments ==
  {"a", " b ", "{", "}", "\\{", "\\}", "{{", "{%", "}}", " %}", OPEN_PLACEHOLDER,
   "{{ a }}", "{% if a %}"}

MaxPieces == 2

TextTemplates == Compose(TextFragments, MaxPieces)

TextHeaps == {<<MkObj(<<>>)>>, ContextOf("a", Str("x"))}

BuildText == \E hp \in TextHeaps : BuildContext(hp, Ref(1))

RenderText == \E t \in TextTemplates : CallRender(t)

NextText == BuildText \/ RenderText \/ Release

SpecText == Init /\ [][NextText]_vars

\* s has `open`, and `close` somewhere after it.
HasMarker(s, open, close) ==
  \E i \in 1..Len(s), j \in 1..Len(s) :
    i + Len(open) <= j /\ StartsAt(s, i, open) /\ StartsAt(s, j, close)

\* The template contains no {{ ... }} and no {% ... %} marker.
NoMarker(s) == ~HasMarker(s, "{{", "}}") /\ ~HasMarker(s, "{%", "%}")

\* C8 as stated: a template with no {{ ... }} and no {% ... %} marker is
\* rendered unchanged, for every context.
C8_RoundTrip ==
  (call.op = "render" /\ NoMarker(call.template))
    => ~Failed(result.err) /\ result.out = call.template

\* Literal text in the narrower sense: no opening sequence {{ or {%, no
\* backslash-escaped brace, and no NUL character (the placeholders the
\* tokenizer puts in place of escaped braces are written with it).
PlainText(s) ==
  /\ ~Includes(s, "{{")
  /\ ~Includes(s, "{%")
  /\ ~Includes(s, "\\{")
  /\ ~Includes(s, "\\}")
  /\ ~Includes(s, NUL)

\* C8, amended: a template of plain text is rendered unchanged, for every
\* context.
C8_PlainTextRoundTrip ==
  (call.op = "render" /\ PlainText(call.template))
    => ~Failed(result.err) /\ result.out = call.template

\* C8, reached: a template of text with single braces and closing sequences
\* has been rendered.
C8_Reached ==
  /\ call.op = "render"
  /\ call.template = " b }}"
  /\ result.out = " b }}"

(***************************************************************************)
(* Block structure                                                         *)
(***************************************************************************)

\* The block markers the templates are made of; the last is a for marker
\* whose header names no iterable.
BlockPieces ==
  {"{% if a %}", "{% else %}", "{% endif %}", "{% for x in xs %}", "{% endfor %}",
   "{% for x %}"}

MaxBlocks == 3

\* Templates with text and variables between the markers, and templates the
\* tokenizer refuses.
MixedTemplates ==
  {"t{% if a %}u{% else %}v{% endif %}w", "{% for x, i in xs %}{{ x }}{% endfor %}",
   "{% if a %}{% for x in xs %}{{ x }}{% else %}{% endfor %}{% endif %}",
   "{% if a %}{% for x in xs %}{% endfor %}{% endif %}",
   "{% for x in xs %}{% if a %}{% else %}{% endif %}{% endfor %}",
   "{% for x in xs %}{% if a %}{% endif %}", "{% if a %}{% if a %}{% endif %}{% endfor %}",
   "{% if a %}{{ a }}", "{{ a }}{% endfor %}", "{% if %}{% endif %}",
   "{% %}{% if a %}{% endif %}", "{{{ a }}}{% if a %}{% endif %}",
   "{% if a %}{{ a {% endif %}", "{% if a %}{% for x in xs %}{% endif %}{% endfor %}"}

BlockTemplates == Compose(BlockPieces, MaxBlocks) \cup MixedTemplates

BalanceHeaps ==
  {<<MkObj(<<Prop("a", Bool(TRUE)), Prop("xs", Ref(2))>>), MkArr(<<Num(1)>>)>>}

BuildBalance == \E hp \in BalanceHeaps : BuildContext(hp, Ref(1))

ParseBlocks == \E t \in BlockTemplates : CallParse(t)

RenderBlocks == \E t \in MixedTemplates \cup Compose(BlockPieces, 2) : CallRender(t)

NextBalance == BuildBalance \/ ParseBlocks \/ RenderBlocks \/ Release

SpecBalance == Init /\ [][NextBalance]_vars

\* The kind of the block marker that starts at position i of s, "" if none.
KindAt(s, i) ==
  IF StartsAt(s, i, "{% if ") THEN "if"
  ELSE IF StartsAt(s, i, "{% else %}") THEN "else"
  ELSE IF StartsAt(s, i, "{% endif %}") THEN "endif"
  ELSE IF StartsAt(s, i, "{% for ") THEN "for"
  ELSE IF StartsAt(s, i, "{% endfor %}") THEN "endfor"
  ELSE ""

\* The kinds of the block markers of s, in the order they stand.
Kinds(s) ==
  LET at == {i \in 1..Len(s) : KindAt(s, i) # ""}
  IN [k \in 1..Cardinality(at) |->
        KindAt(s, CHOOSE i \in at : Cardinality({j \in at : j < i}) = k - 1)]

\* What is wrong with the nesting of a sequence of marker kinds, read with
\* the stack of open blocks ("ifelse": an if block past its else):
\* "dangling" a block start that nothing closes, "mismatch" an end tag of
\* another kind than the innermost open block, "stray" an end tag with no
\* block open, "else" an else that is not the first of an open if block.
RECURSIVE Nesting(_, _, _)
Nesting(kinds, stack, found) ==
  IF Len(kinds) = 0 THEN IF Len(stack) = 0 THEN found ELSE found \cup {"dangling"}
  ELSE LET kind == Head(kinds)
           top == IF Len(stack) = 0 THEN "" ELSE stack[Len(stack)]
           pop == SubSeq(stack, 1, Len(stack) - 1)
           opens == IF kind = "endif" THEN {"if", "ifelse"} ELSE {"for"}
       IN IF kind \in {"if", "for"} THEN Nesting(Tail(kinds), Append(stack, kind), found)
          ELSE IF kind = "else"
            THEN IF top = "if" THEN Nesting(Tail(kinds), Append(pop, "ifelse"), found)
                 ELSE Nesting(Tail(kinds), stack, found \cup {"else"})
          ELSE IF top = "" THEN Nesting(Tail(kinds), stack, found \cup {"stray"})
          ELSE IF top \in opens THEN Nesting(Tail(kinds), pop, found)
          ELSE found \cup {"mismatch"}

Problems(s) == Nesting(Kinds(s), <<>>, {})

\* The if/endif and for/endfor markers form matched pairs in valid nesting.
Balanced(s) == Problems(s) \cap {"dangling", "mismatch", "stray"} = {}

\* C9 as stated: parse(tokenize(t)) succeeds for every template whose
\* if/endif and for/endfor markers are matched pairs in valid nesting, and
\* throws, with no output, for every template with a dangling block start or
\* an end tag of another kind than the innermost open block.
C9_StructuralBalance ==
  call.op \in {"parse", "render"} =>
    /\ Balanced(call.template) => ~Failed(result.err)
    /\ Problems(call.template) \cap {"dangling", "mismatch"} # {}
         => Failed(result.err) /\ result.out = ""

\* The text between the opening `open` at position i and the next %}.
HeaderAt(s, i, open) == Trim(Slice(s, i + Len(open), IndexFrom(s, "%}", i) - 1))

\* Every if marker has a condition and every for marker a header of the form
\* `item in iterable` or `item, index in iterable`.
HeadersComplete(s) ==
  \A i \in 1..Len(s) :
    /\ KindAt(s, i) = "if" => HeaderAt(s, i, "{% if ") # ""
    /\ KindAt(s, i) = "for" =>
         LET header == HeaderAt(s, i, "{% for ")
             at == IndexFrom(header, " in ", 1)
         IN /\ at > 1
            /\ Trim(Slice(header, at + 4, Len(header))) # ""
            /\ \A k \in 1..(at - 1) : IsWord(Char(header, k)) \/ Char(header, k) \in {",", " "}

\* The tokenizer accepts the markers of s: every {{ is closed by the next
\* braces, and there is no {{{ and no empty {% %}.
MarkersComplete(s) ==
  /\ ~Includes(s, "{{{")
  /\ ~Includes(s, "{% %}")
  /\ \A i \in 1..Len(s) :
       StartsAt(s, i, "{{") => StartsAt(s, IndexFrom(s, "}", i), "}}")

\* C9, amended: parse(tokenize(t)) succeeds for every template the tokenizer
\* accepts whose if/endif and for/endfor markers are matched pairs in valid
\* nesting, whose else markers each stand in an if block that has no else
\* yet, and whose if and for headers are complete; it throws, with no output,
\* for every template with a dangling block start or an end tag of another
\* kind than the innermost open block.
C9_BalancedAndComplete ==
  call.op \in {"parse", "render"} =>
    /\ (/\ Problems(call.template) = {}
        /\ HeadersComplete(call.template)
        /\ MarkersComplete(call.template)) => ~Failed(result.err)
    /\ Problems(call.template) \cap {"dangling", "mismatch"} # {}
         => Failed(result.err) /\ result.out = ""

\* C9, reached: a template of nested matched blocks has been parsed.
C9_Reached ==
  /\ call.op = "parse"
  /\ call.template = "{% if a %}{% for x in xs %}{% endfor %}{% endif %}"
  /\ ~Failed(result.err)

(***************************************************************************)
(* Truthiness of an if condition                                           *)
(***************************************************************************)

MaxNumber == 3

TruthyStrings == {"", "x", "false", "0", " ", "null", "undefined", "NaN", "[]"}

\* Contexts {v: value}: primitives, then arrays and objects; the first has
\* no key v at all.
TruthyHeaps ==
  {<<MkObj(<<>>)>>, ContextOf("v", Undef), ContextOf("v", Null), ContextOf("v", NaN),
   ContextOf("v", Bool(TRUE)), ContextOf("v", Bool(FALSE))}
  \cup {ContextOf("v", Num(k)) : k \in (0 - MaxNumber)..MaxNumber}
  \cup {ContextOf("v", Str(s)) : s \in TruthyStrings}
  \cup {<<MkObj(<<Prop("v", Ref(2))>>), o>> :
          o \in {MkArr(<<>>), MkArr(<<Num(1)>>), MkArr(<<Num(0)>>), MkArr(<<Str("")>>),
                 MkArr(<<Null>>), MkArr(<<Bool(FALSE), Undef>>), MkObj(<<>>),
                 MkObj(<<Prop("a", Num(0))>>), MkObj(<<Prop("length", Num(0))>>)}}
  \cup {<<MkObj(<<Prop("v", Ref(2))>>), MkArr(<<Ref(3)>>), MkArr(<<>>)>>}

TruthyTemplate == "{% if v %}T{% else %}F{% endif %}"

BuildTruthy == \E hp \in TruthyHeaps : BuildContext(hp, Ref(1))

RenderTruthy == CallRender(TruthyTemplate)

CompiledTruthy == CallCompiled(TruthyTemplate)

EvaluateTruthy == CallEvaluate(TruthyTemplate)

NextTruthy == BuildTruthy \/ RenderTruthy \/ CompiledTruthy \/ EvaluateTruthy \/ Release

SpecTruthy == Init /\ [][NextTruthy]_vars

\* The values the table lists as false: false, 0, '', null, undefined, NaN
\* and the empty sequence.
ListedFalse(h, v) ==
  \/ v \in {Bool(FALSE), Num(0), Str(""), Null, Undef, NaN}
  \/ v.t = "object" /\ h[v.n].arr /\ Len(h[v.n].props) = 0

\* C10: {% if v %}T{% else %}F{% endif %} gives F for false, 0, '', null,
\* undefined, NaN and [], and T for every other value (true, the other
\* numbers, non-empty strings, 'false' and '0' too, objects, non-empty
\* sequences); the else body is chosen exactly when isTruthy of the value is
\* false.
C10_Truthiness ==
  call.op \in {"render", "compile", "evaluate"} =>
    LET v == OwnProp(heap, 1, "v")
    IN /\ ~Failed(result.err)
       /\ result.out = IF ListedFalse(heap, v) THEN "F" ELSE "T"
       /\ result.out = "F" <=> ~isTruthy(heap, v)

\* C10, reached: the condition was an empty sequence, and the else body was
\* rendered.
C10_Reached ==
  /\ call.op = "render"
  /\ Len(heap) = 2
  /\ heap[2] = MkArr(<<>>)
  /\ result.out = "F"

(***************************************************************************)
(* For loops over a sequence                                               *)
(***************************************************************************)

\* The longest sequence iterated.
MaxItems == 3

LoopElements == {Str("a"), Num(7)}

\* Contexts {xs: [...], x: 'outer', k: 'K'} for every sequence of at most
\* MaxItems elements.
LoopHeaps ==
  {<<MkObj(<<Prop("xs", Ref(2)), Prop("x", Str("outer")), Prop("k", Str("K"))>>),
     MkArr(elems)>> :
     elems \in UNION {[1..n -> LoopElements] : n \in 0..MaxItems}}

\* The loops rendered: the names of the item and of the optional index
\* variable, and a statement that the body runs before it prints.
LoopCases ==
  [item : {"x", "loop"}, index : {"", "i"}, first : {""}]
  \cup [item : {"x"}, index : {"x", "loop"}, first : {""}]
  \cup [item : {"x"}, index : {"", "i"}, first : {"{% if xs.pop() %}{% endif %}"}]

\* The body prints the item, the index when there is one, and every field
\* of `loop`.
LoopProbe(c) ==
  "[{{ " \o c.item \o " }}"
  \o (IF c.index = "" THEN "" ELSE "|{{ " \o c.index \o " }}")
  \o "|{{ loop.index }}|{{ loop.index0 }}|{{ loop.index1 }}|{{ loop.first }}"
  \o "|{{ loop.last }}|{{ loop.length }}]"

LoopTemplate(c) ==
  "{% for " \o c.item \o (IF c.index = "" THEN "" ELSE ", " \o c.index) \o " in xs %}"
  \o c.first \o LoopProbe(c) \o "{% endfor %}"

BuildLoop == \E hp \in LoopHeaps : BuildContext(hp, Ref(1))

RenderLoop == \E c \in LoopCases : CallRender(LoopTemplate(c))

CompiledLoop == \E c \in LoopCases : CallCompiled(LoopTemplate(c))

EvaluateLoop == \E c \in LoopCases : CallEvaluate(LoopTemplate(c))

NextLoop == BuildLoop \/ RenderLoop \/ CompiledLoop \/ EvaluateLoop \/ Release

SpecLoop == Init /\ [][NextLoop]_vars

BoolText(b) == IF b THEN "true" ELSE "false"

\* What iteration i of n prints when the item is bound to element i, the
\* index to i and `loop` to the record of the iteration.
IterationText(h, c, i, n) ==
  "[" \o ToStr(h, OwnProp(h, 2, IntToStr(i)))
  \o (IF c.index = "" THEN "" ELSE "|" \o IntToStr(i))
  \o "|" \o IntToStr(i) \o "|" \o IntToStr(i) \o "|" \o IntToStr(i + 1)
  \o "|" \o BoolText(i = 0) \o "|" \o BoolText(i = n - 1) \o "|" \o IntToStr(n) \o "]"

\* The outputs of the iterations 0, 1, ..., n-1 of the sequence at address 2
\* of h, in that order.
LoopText(h, c) ==
  LET n == IndexCount(h, 2)
  IN Join([k \in 1..n |-> IterationText(h, c, k - 1, n)], "")

\* C11: a for loop over a sequence of length n evaluates its body exactly n
\* times, in index order, and concatenates the outputs; iteration i sees the
\* item variable bound to element i, the index variable to i and `loop` to
\* {index: i, index0: i, index1: i+1, first: i==0, last: i==n-1, length: n};
\* for n = 0 the output is empty.
C11_LoopIterations ==
  [][\A c \in LoopCases :
       (call'.op \in {"render", "compile", "evaluate"} /\ call'.template = LoopTemplate(c))
         => /\ ~Failed(result'.err)
            /\ result'.out = LoopText(heap, c)]_vars

(***************************************************************************)
(* Scopes of nested for loops                                              *)
(***************************************************************************)

\* Contexts {xs, ys, k, i} with and without a key x; xs and ys are
\* sequences of no or two strings.
ShadowHeaps ==
  {<<MkObj(<<Prop("xs", Ref(2)), Prop("ys", Ref(3)), Prop("k", Str("K")),
             Prop("i", Str("I"))>> \o own),
     MkArr(xs), MkArr(ys)>> :
     own \in {<<>>, <<Prop("x", Str("X"))>>},
     xs \in {<<>>, <<Str("a"), Str("b")>>},
     ys \in {<<>>, <<Str("c"), Str("d")>>}}

\* The names an expression reads at every place of the template.
ShadowNames == {"x", "k", "i"}

ShadowProbe == "{{ x }},{{ k }},{{ i }}"

\* The loops: the item and the optional index of the outer loop over xs and
\* the item of the inner loop over ys.
ShadowCases == [item : {"x", "z"}, index : {"", "i"}, inner : {"x", "k"}]

\* The names are read before the outer loop, in its body before and after
\* the inner loop, in the body of the inner loop, and after the outer loop.
ShadowTemplate(c) ==
  ShadowProbe
  \o "{% for " \o c.item \o (IF c.index = "" THEN "" ELSE ", " \o c.index) \o " in xs %}<"
  \o ShadowProbe
  \o "{% for " \o c.inner \o " in ys %}(" \o ShadowProbe \o "){% endfor %}"
  \o ShadowProbe
  \o ">{% endfor %}"
  \o ShadowProbe

BuildShadow == \E hp \in ShadowHeaps : BuildContext(hp, Ref(1))

RenderShadow == \E c \in ShadowCases : CallRender(ShadowTemplate(c))

CompiledShadow == \E c \in ShadowCases : CallCompiled(ShadowTemplate(c))

EvaluateShadow == \E c \in ShadowCases : CallEvaluate(ShadowTemplate(c))

NextShadow == BuildShadow \/ RenderShadow \/ CompiledShadow \/ EvaluateShadow \/ Release

SpecShadow == Init /\ [][NextShadow]_vars

\* The text of each name in the caller's context ('' for a missing key).
EnclosingScope(h) ==
  [n \in ShadowNames |-> IF HasOwn(h, 1, n) THEN ToStr(h, OwnProp(h, 1, n)) ELSE ""]

\* The scope with name bound to text; names that are not read do not count.
Shadowed(scope, name, text) ==
  IF name \in DOMAIN scope THEN [scope EXCEPT ![name] = text] ELSE scope

\* What the probe prints in a scope.
ProbeText(scope) == scope["x"] \o "," \o scope["k"] \o "," \o scope["i"]

\* What the template of case c prints when every loop variable shadows the
\* key of its name for the body of its own iteration only.
ShadowText(h, c) ==
  LET top == EnclosingScope(h)
      outer(j) == Shadowed(Shadowed(top, c.item, ToStr(h, OwnProp(h, 2, IntToStr(j)))),
                           c.index, IntToStr(j))
      inner(j, l) == Shadowed(outer(j), c.inner, ToStr(h, OwnProp(h, 3, IntToStr(l))))
      innerLoop(j) == Join([l \in 1..IndexCount(h, 3) |->
                              "(" \o ProbeText(inner(j, l - 1)) \o ")"], "")
      outerLoop == Join([j \in 1..IndexCount(h, 2) |->
                           "<" \o ProbeText(outer(j - 1)) \o innerLoop(j - 1)
                           \o ProbeText(outer(j - 1)) \o ">"], "")
  IN ProbeText(top) \o outerLoop \o ProbeText(top)

\* C12: inside an iteration of a for body the loop's variable shadows the
\* key of the same name of the enclosing scope and every other key stays
\* visible; the shadowing lasts for that iteration's body only: after an
\* inner loop the outer loop's bindings are seen again, and after the outer
\* loop the context's own.
C12_LoopShadowing ==
  \A c \in ShadowCases :
    (call.op \in {"render", "compile", "evaluate"} /\ call.template = ShadowTemplate(c))
      => /\ ~Failed(result.err)
         /\ result.out = ShadowText(heap, c)

\* C12, reached: both loops were named x over a context with a key x, the
\* outer loop and the inner loop ran twice.
C12_Reached ==
  /\ call.op = "render"
  /\ call.template = ShadowTemplate([item |-> "x", index |-> "i", inner |-> "x"])
  /\ HasOwn(heap, 1, "x")
  /\ IndexCount(heap, 2) = 2
  /\ IndexCount(heap, 3) = 2
  /\ result.out = "X,K,I<a,K,0(c,K,0)(d,K,0)a,K,0><b,K,1(c,K,1)(d,K,1)b,K,1>X,K,I"

(***************************************************************************)
(* render and compile                                                      *)
(***************************************************************************)

\* The contexts passed: objects, undefined, null, and values that are not
\* objects; each with the heap it lives in.
EquivContexts ==
  {[heap |-> <<MkObj(<<Prop("user", Ref(2)), Prop("n", Num(1)), Prop("xs", Ref(3))>>),
               MkObj(<<Prop("name", Str("<Al>"))>>), MkArr(<<Str("a"), Str("b")>>)>>,
    context |-> Ref(1)],
   [heap |-> <<MkObj(<<Prop("user", Ref(2)), Prop("n", Num(0)), Prop("xs", Ref(3))>>),
               MkObj(<<Prop("bad", Thrower("x"))>>), MkArr(<<>>)>>,
    context |-> Ref(1)],
   [heap |-> <<MkObj(<<>>)>>, context |-> Ref(1)],
   [heap |-> <<>>, context |-> Undef],
   [heap |-> <<>>, context |-> Null],
   [heap |-> <<>>, context |-> Num(5)],
   [heap |-> <<>>, context |-> Str("s")],
   [heap |-> <<>>, context |-> Bool(TRUE)]}

\* Templates that render, and templates that fail in the tokenizer, in the
\* parser and in the evaluator.
EquivTemplates ==
  {"", "plain", "a\\{b", "{{ user.name }}", "{{ n + 1 }}", "{{ y = n }}",
   "{% if n %}a{% else %}b{% endif %}", "{% for x, i in xs %}{{ i }}{{ x }}{% endfor %}",
   "{{ a", "{% if n", "{{ }}", "{{{ n }}}", "{% if n %}{% endfor %}",
   "{% if n %}", "{% endif %}", "{% for x %}{% endfor %}",
   "{{ process }}", "{{ n + }}", "{{ user.bad }}", "{% for x in n %}{% endfor %}",
   "{% if user.bad + 1 %}{% endif %}"}

BuildEquiv == \E c \in EquivContexts : BuildContext(c.heap, c.context)

RenderEquiv == \E t \in EquivTemplates : CallRender(t)

CompiledEquiv == \E t \in EquivTemplates : CallCompiled(t)

NextEquiv == BuildEquiv \/ RenderEquiv \/ CompiledEquiv \/ Release

SpecEquiv == Init /\ [][NextEquiv]_vars

\* compile(template)(context) in the machine state m: the error of compile,
\* or else the outcome of the function it returned.
compileThenCall(m, template, context) ==
  LET c == compile(template)
  IN IF Failed(c.err) THEN O(m.h, m.g, "", c.err) ELSE compiled(m, c.nodes, context)

\* C13: compile(template)(context) returns the same string as
\* render(template, context) and fails whenever render fails: every call of
\* one of the two gives what the other gives on the same template, context
\* and state.
C13_CompileIsRender ==
  [][call'.op \in {"render", "compile"} =>
       LET m == [h |-> heap, g |-> ambient]
           other == IF call'.op = "render"
                      THEN compileThenCall(m, call'.template, call.context)
                    ELSE render(m, call'.template, call.context)
       IN /\ Failed(result'.err) <=> Failed(other.err)
          /\ result'.out = other.out]_vars

\* C13, reached: a compiled template rendered a loop over two elements.
C13_Reached ==
  /\ call.op = "compile"
  /\ call.template = "{% for x, i in xs %}{{ i }}{{ x }}{% endfor %}"
  /\ result.out = "0a1b"

(***************************************************************************)
(* The errors render throws                                                *)
(***************************************************************************)

\* What the accessor user.bad of the context throws.
AccessorMessages ==
  {"Getter error: x", "Getter error at line 3", "Getter error: Position lost",
   "Getter error in column b", "Getter error: pos", "Getter error: LINE"}

ErrorHeaps ==
  {<<MkObj(<<Prop("user", Ref(2)), Prop("n", Num(1)), Prop("xs", Ref(3))>>),
     MkObj(<<Prop("bad", Thrower(msg))>>), MkArr(<<Num(1)>>)>> :
     msg \in AccessorMessages}

\* Templates that fail in the tokenizer, in the parser and in the evaluator,
\* and one that renders.
ErrorTemplates ==
  {"ok {{ n }}",
   "{{ a", "ab{% if a", "{{ }}", "a{{{ n }}}", "{% if n %}{% endfor %}", "{% %}",
   "{% if n %}", "a{% endif %}", "{% else %}", "{% for x %}{% endfor %}",
   "{% for x in xs %}", "{% if n %}{% else %}{% else %}{% endif %}",
   "{{ process }}", "{{ n + }}", "{{ line + }}", "{{ Column + }}",
   "{% if position( %}{% endif %}", "{% for x in n %}{% endfor %}",
   "{% for x in lines + %}{% endfor %}", "{{ user.bad }}",
   "{% for x in xs %}{{ user.bad }}{% endfor %}"}

BuildErrors == \E hp \in ErrorHeaps : BuildContext(hp, Ref(1))

RenderErrors == \E t \in ErrorTemplates : CallRender(t)

NextErrors == BuildErrors \/ RenderErrors \/ Release

SpecErrors == Init /\ [][NextErrors]_vars

\* The error tokenize, parse or evaluate raises inside render (NoErr when
\* none does).
stageError(m, template, context) ==
  LET f == frontEnd(template)
  IN IF Failed(f.err) THEN f.err ELSE evaluate(m, f.nodes, context).err

\* msg followed by ' at position <start>-<end>'
WithPosition(error) ==
  error.msg \o " at position " \o IntToStr(error.start) \o "-" \o IntToStr(error.end)

\* C14: the message of every error render throws for a failure of a stage
\* is the stage's message followed by ' at position <start>-<end>' when the
\* error carries a position, and 'Template rendering failed: ' followed by
\* the stage's message otherwise, whatever the message is.
C14_TwoShapes ==
  [][(call'.op = "render" /\ Failed(result'.err)) =>
       LET original == stageError([h |-> heap, g |-> ambient], call'.template, call.context)
       IN result'.err.msg = IF original.haspos THEN WithPosition(original)
                            ELSE "Template rendering failed: " \o original.msg]_vars

\* Whether the message holds one of the words position, line and column,
\* in upper or lower case.
NamesPosition(msg) ==
  \E word \in {"position", "line", "column"} :
    \E i \in 1..Len(msg) :
      /\ i + Len(word) - 1 <= Len(msg)
      /\ \A j \in 1..Len(word) : LowerOf(Char(msg, i + j - 1)) = Char(word, j)

\* C14, as the code has it: there is a third shape.  An error without a
\* position whose message holds position, line or column is thrown again
\* as it is, with no prefix.
C14_ThreeShapes ==
  [][(call'.op = "render" /\ Failed(result'.err)) =>
       LET original == stageError([h |-> heap, g |-> ambient], call'.template, call.context)
       IN result'.err.msg = IF original.haspos THEN WithPosition(original)
                            ELSE IF NamesPosition(original.msg) THEN original.msg
                            ELSE "Template rendering failed: " \o original.msg]_vars

\* C14, reached: an expression that does not parse and holds the word line
\* failed, and render threw the evaluator's message as it was.
C14_Reached ==
  /\ call.op = "render"
  /\ call.template = "{{ line + }}"
  /\ result.err.msg = "Invalid expression: line +"

\* C15: when the stage that fails knows where the fault is (the span of a
\* lexical error, the span of the token of a parse error), the message of
\* the error render throws contains that span.
C15_KnownPositionInMessage ==
  [][(call'.op = "render" /\ Failed(result'.err)) =>
       LET original == stageError([h |-> heap, g |-> ambient], call'.template, call.context)
       IN original.cls \in {"TokenizerError", "ParseError"} =>
            Includes(result'.err.msg,
                     IntToStr(original.start) \o "-" \o IntToStr(original.end))]_vars

(***************************************************************************)
(* Expressions over names and paths that are missing                       *)
(***************************************************************************)

\* Contexts in which `missing` is no key, user.missing is no property, and
\* nil is absent or null.
MissingHeaps ==
  {<<MkObj(<<>>)>>,
   <<MkObj(<<Prop("a", Num(5))>>)>>,
   <<MkObj(<<Prop("a", Num(5)), Prop("user", Ref(2))>>), MkObj(<<Prop("name", Str("Al"))>>)>>,
   <<MkObj(<<Prop("a", Num(5)), Prop("user", Ref(2)), Prop("nil", Null)>>), MkObj(<<>>)>>,
   <<MkObj(<<Prop("user", Null), Prop("nil", Undef)>>)>>}

\* Simple dotted paths with a missing segment.
MissingPaths ==
  {"missing", "missing.property", "user.missing", "user.missing.deep", "nil.x",
   "missing[0]", "user.missing[1].x"}

\* Operator expressions with an operand that is such a name or path.
MissingOperands ==
  {"missing + 1", "a + missing", "!missing", "missing || a", "a > missing",
   "missing.property + 1", "user.missing.deep + 1", "nil.x + 1", "a && nil.x",
   "missing == a"}

BuildMissing == \E hp \in MissingHeaps : BuildContext(hp, Ref(1))

EvaluateMissing == \E e \in MissingPaths \cup MissingOperands : CallEvaluateExpression(e)

RenderMissing == \E e \in MissingPaths \cup MissingOperands : CallRender("{{ " \o e \o " }}")

NextMissing == BuildMissing \/ EvaluateMissing \/ RenderMissing \/ Release

SpecMissing == Init /\ [][NextMissing]_vars

\* C16: evaluateExpression never raises because a name or a path segment is
\* absent or an intermediate value is nullish, in a simple dotted path and in
\* an operator expression alike; a missing path evaluates to undefined, and
\* its interpolation renders as the empty string.
C16_MissingIsUndefined ==
  /\ (call.op = "evaluateExpression" /\ call.expr \in MissingPaths \cup MissingOperands)
       => ~Failed(result.err)
  /\ (call.op = "evaluateExpression" /\ call.expr \in MissingPaths)
       => result.v = Undef
  /\ \A e \in MissingPaths \cup MissingOperands :
       (call.op = "render" /\ call.template = "{{ " \o e \o " }}")
         => /\ ~Failed(result.err)
            /\ e \in MissingPaths => result.out = ""

(***************************************************************************)
(* Openings without a closing delimiter                                    *)
(***************************************************************************)

\* The pieces the templates are made of, and how many a template has.
DelimiterPieces == {"{{", "}}", "{%", "%}", "}", "%", " a ", "if a"}

MaxMarks == 3

DelimiterTemplates == Compose(DelimiterPieces, MaxMarks)

BuildUnclosed == BuildContext(<<MkObj(<<>>)>>, Ref(1))

ParseUnclosed == \E t \in DelimiterTemplates : CallParse(t)

NextUnclosed == BuildUnclosed \/ ParseUnclosed \/ Release

SpecUnclosed == Init /\ [][NextUnclosed]_vars

\* Whether some `open` of s has no `close` after it before the end of s.
OpenWithoutClose(s, open, close) ==
  \E i \in 1..Len(s) :
    /\ StartsAt(s, i, open)
    /\ ~\E j \in (i + 2)..Len(s) : StartsAt(s, j, close)

\* C17: a template is rejected as unclosed exactly when some `{{` has no
\* `}}` after it or some `{%` has no `%}` after it, with 'Unclosed variable
\* expression' only in the first case and 'Unclosed block expression' only
\* in the second; a template whose every opening has its closing delimiter
\* somewhere after it is not rejected as unclosed, whatever lies between.
C17_UnclosedExactly ==
  call.op = "parse" =>
    LET t == call.template
        msg == result.err.msg
    IN /\ msg \in {"Unclosed variable expression", "Unclosed block expression"}
            <=> (OpenWithoutClose(t, "{{", "}}") \/ OpenWithoutClose(t, "{%", "%}"))
       /\ msg = "Unclosed variable expression" => OpenWithoutClose(t, "{{", "}}")
       /\ msg = "Unclosed block expression" => OpenWithoutClose(t, "{%", "%}")

(***************************************************************************)
(* Spans of the tokens                                                     *)
(***************************************************************************)

\* The pieces the templates are made of, and how many a template has.
SpanPieces == {"\\{", "\\}", "ab", " ", "{{ x }}", "{% if x %}", "{% endif %}"}

MaxSpans == 3

SpanTemplates == Compose(SpanPieces, MaxSpans)

BuildSpans == BuildContext(<<MkObj(<<Prop("x", Num(1))>>)>>, Ref(1))

ParseSpans == \E t \in SpanTemplates : CallParse(t)

RenderSpans == \E t \in SpanTemplates : CallRender(t)

NextSpans == BuildSpans \/ ParseSpans \/ RenderSpans \/ Release

SpecSpans == Init /\ [][NextSpans]_vars

\* Whether text (a part of a template) is the source of the token: for a
\* marker the whole marker, whose payload is the token's value, and for a
\* TEXT token the run of text whose value is the text with `\{` and `\}`
\* read as braces.
IsSourceOf(text, token) ==
  LET payload == Trim(Slice(text, 3, Len(text) - 2))
      marker(open, close, word) ==
        /\ StartsWith(text, open)
        /\ Len(text) >= 4
        /\ Slice(text, Len(text) - 1, Len(text)) = close
        /\ StartsWith(payload, word)
  IN CASE token.type = "TEXT" ->
            ReplaceAll(ReplaceAll(text, "\\{", "{"), "\\}", "}") = token.value
       [] token.type = "VARIABLE" -> marker("{{", "}}", "") /\ payload = token.value
       [] token.type = "IF_START" ->
            marker("{%", "%}", "if") /\ Trim(Slice(payload, 3, Len(payload))) = token.value
       [] token.type = "FOR_START" ->
            marker("{%", "%}", "for") /\ Trim(Slice(payload, 4, Len(payload))) = token.value
       [] token.type = "ELSE" -> marker("{%", "%}", "else") /\ payload = "else"
       [] token.type = "IF_END" -> marker("{%", "%}", "endif") /\ payload = "endif"
       [] token.type = "FOR_END" -> marker("{%", "%}", "endfor") /\ payload = "endfor"
       [] OTHER -> FALSE

\* C18: the span of every token tokenize returns is a half-open range of
\* offsets into the template as it was given, 0 <= start < end <= length,
\* and the characters of the template in that range are the source of the
\* token, escaped braces or not.
C18_SpansInTemplate ==
  call.op \in {"parse", "render"} =>
    LET t == tokenize(call.template)
    IN \A k \in 1..Len(t.tokens) :
         LET token == t.tokens[k]
         IN /\ 0 <= token.start
            /\ token.start < token.end
            /\ token.end <= Len(call.template)
            /\ IsSourceOf(Slice(call.template, token.start + 1, token.end), token)

(***************************************************************************)
(* One compiled template called many times.  The function compile returns  *)
(* holds the AST of its template for good (call.template stands for it:    *)
(* evaluate reads the nodes and has no assignment to any of them); a call  *)
(* of the function runs to its end before the next one starts, JavaScript  *)
(* having one thread, so the interleavings of the calls are the orders in  *)
(* which the callers make them.                                            *)
(***************************************************************************)

SharedTemplates ==
  {"{{ n }}", "{% for x in xs %}{{ x }}{{ n }}{% endfor %}",
   "{% if n %}{{ last = n }}{% else %}{{ last + 1 }}{% endif %}",
   "{{ total = n + 1 }}", "{{ n + seen }}"}

\* The contexts of the callers, one heap of its own for each call.
SharedHeaps ==
  {<<MkObj(<<Prop("n", Num(k)), Prop("xs", Ref(2))>>), MkArr(xs)>> :
     k \in 0..3, xs \in {<<>>, <<Str("a"), Str("b")>>}}

\* compile(template), once: the function returned holds the AST.
CompileShared(template) ==
  /\ call = Idle
  /\ ~Failed(Call("compile", <<template>>).err)
  /\ call' = [Idle EXCEPT !.template = template]
  /\ UNCHANGED <<heap, ambient, result>>

\* A caller builds the context of its call.
PrepareShared(hp, context) ==
  /\ call.op = "idle"
  /\ call.template # ""
  /\ heap' = hp
  /\ call' = [call EXCEPT !.op = "built", !.context = context]
  /\ result' = NoResult
  /\ UNCHANGED ambient

\* The caller calls the function compile returned, with its context.
CallShared ==
  /\ call.op = "built"
  /\ call.template # ""
  /\ \E r \in {Call("compiled", <<[h |-> heap, g |-> ambient],
                                 Call("compile", <<call.template>>).nodes, call.context>>)} :
        /\ heap' = r.h
        /\ ambient' = r.g
        /\ result' = [out |-> r.out, v |-> Undef, err |-> r.err]
  /\ call' = [call EXCEPT !.op = "compile"]

\* The call has returned; the function is there for the next caller.
ReturnShared ==
  /\ call.op = "compile"
  /\ call.template # ""
  /\ heap' = <<>>
  /\ call' = [call EXCEPT !.op = "idle", !.context = Undef]
  /\ result' = NoResult
  /\ UNCHANGED ambient

NextShared ==
  \/ \E t \in SharedTemplates : CompileShared(t)
  \/ \E hp \in SharedHeaps : PrepareShared(hp, Ref(1))
  \/ CallShared
  \/ ReturnShared

SpecShared == Init /\ [][NextShared]_vars

\* C19: in any order of calls of one compiled template, each with a context
\* of its own, every call returns (or fails) as the same call does when it
\* is the only one ever made.
C19_CallsIndependent ==
  [][call'.op = "compile" =>
       LET alone == compiled([h |-> heap, g |-> <<>>], compile(call.template).nodes,
                             call.context)
       IN /\ Failed(result'.err) <=> Failed(alone.err)
          /\ result'.out = alone.out]_vars

(***************************************************************************)
(* parse on sequences of tokens                                            *)
(***************************************************************************)

TokenKinds == {"TEXT", "IF_START", "ELSE", "IF_END", "FOR_START", "FOR_END"}

\* The longest sequence of tokens parsed.
MaxTokens == 4

\* The k-th token of a sequence, of the given kind, with a payload that the
\* parser accepts.
TokenOfKind(kind, k) ==
  Token(kind,
        CASE kind = "TEXT" -> "t"
          [] kind = "IF_START" -> "c"
          [] kind = "FOR_START" -> "x in xs"
          [] OTHER -> "",
        k - 1, k)

TokenSequences ==
  UNION {{[k \in 1..n |-> TokenOfKind(kinds[k], k)] : kinds \in [1..n -> TokenKinds]} :
           n \in 0..MaxTokens}

\* The caller calls parse(tokens).
ParseTokens(tokens) ==
  /\ call = Idle
  /\ \E p \in {Call("parse", <<tokens>>)} :
       result' = [out |-> "", v |-> Undef, err |-> p.err]
  /\ call' = [op |-> "parseTokens", template |-> "", expr |-> "", context |-> Undef,
              tokens |-> tokens]
  /\ UNCHANGED <<heap, ambient>>

NextTokens == (\E tokens \in TokenSequences : ParseTokens(tokens)) \/ Release

SpecTokens == Init /\ [][NextTokens]_vars

\* The message parse is to fail with on the tokens from the i-th on ("" when
\* it is to succeed), open being the constructs open so far, innermost last:
\* "if" (no else yet), "else" (an if with its else) or "for".
RECURSIVE ParseFailure(_, _, _)
ParseFailure(tokens, i, open) ==
  LET kind == tokens[i].type
      top == IF Len(open) = 0 THEN "" ELSE open[Len(open)]
      closed == SubSeq(open, 1, Len(open) - 1)
      unmatched == IF top = "for" THEN "Unmatched for loop" ELSE "Unmatched if statement"
  IN IF i > Len(tokens) THEN (IF top = "" THEN "" ELSE unmatched)
     ELSE CASE kind = "IF_START" -> ParseFailure(tokens, i + 1, Append(open, "if"))
            [] kind = "FOR_START" -> ParseFailure(tokens, i + 1, Append(open, "for"))
            [] kind = "ELSE" ->
                 IF top = "" THEN "Unexpected else statement"
                 ELSE IF top = "if" THEN ParseFailure(tokens, i + 1, Append(closed, "else"))
                 ELSE unmatched
            [] kind = "IF_END" ->
                 IF top = "" THEN "Unexpected endif statement"
                 ELSE IF top \in {"if", "else"} THEN ParseFailure(tokens, i + 1, closed)
                 ELSE unmatched
            [] kind = "FOR_END" ->
                 IF top = "" THEN "Unexpected endfor statement"
                 ELSE IF top = "for" THEN ParseFailure(tokens, i + 1, closed)
                 ELSE unmatched
            [] OTHER -> ParseFailure(tokens, i + 1, open)

\* C20: parse fails with 'Unexpected else/endif/endfor statement' exactly
\* when that terminator is met with no construct open, with 'Unmatched if
\* statement' or 'Unmatched for loop' when the innermost open if or for
\* meets the end of the tokens or a terminator that is not its own (an else
\* in a for body, a second else in an if), and returns nodes only when every
\* token was consumed.
C20_ParseFailures ==
  call.op = "parseTokens" => result.err.msg = ParseFailure(call.tokens, 1, <<>>)

\* C20, reached: an else directly in a for body made parse fail with
\* 'Unmatched for loop'.
C20_Reached ==
  /\ call.op = "parseTokens"
  /\ Len(call.tokens) = 3
  /\ call.tokens[1].type = "FOR_START"
  /\ call.tokens[2].type = "ELSE"
  /\ result.err.msg = "Unmatched for loop"

(***************************************************************************)
(* Mismatched block tags                                                   *)
(***************************************************************************)

\* Whether, reading the marker kinds in order with the stack of the open if
\* and for blocks, an end tag is met while the innermost open block is of
\* the other kind.
RECURSIVE TagMismatch(_, _)
TagMismatch(kinds, stack) ==
  IF Len(kinds) = 0 THEN FALSE
  ELSE LET kind == Head(kinds)
           top == IF Len(stack) = 0 THEN "" ELSE stack[Len(stack)]
       IN IF kind \in {"if", "for"} THEN TagMismatch(Tail(kinds), Append(stack, kind))
          ELSE IF kind \in {"endif", "endfor"} /\ top # ""
            THEN IF (kind = "endif") # (top = "if") THEN TRUE
                 ELSE TagMismatch(Tail(kinds), SubSeq(stack, 1, Len(stack) - 1))
          ELSE TagMismatch(Tail(kinds), stack)

\* The errors the scan of the markers raises before the tags are compared.
ScanMessages ==
  {"Unclosed variable expression", "Unclosed block expression", "Empty block expression",
   "Empty variable expression", "Raw HTML not supported"}

\* C21: on a template whose markers the scan accepts, tokenize raises
\* 'Mismatched block tags' exactly when an endif or endfor is met while a
\* block is open and the innermost open block is of the other kind; an end
\* tag with no block open and a block left open raise no tokenizer error:
\* they are the parser's to report.
C21_MismatchExactly ==
  (call.op = "parse" /\ result.err.msg \notin ScanMessages) =>
    LET mismatch == TagMismatch(Kinds(call.template), <<>>)
    IN /\ result.err.msg = "Mismatched block tags" <=> mismatch
       /\ ~mismatch => result.err.cls # "TokenizerError"
       /\ (~mismatch /\ ~Balanced(call.template)) => result.err.cls = "ParseError"

\* C21, reached: an endif closed a for block and the tokenizer refused; an
\* endfor with no block open was left to the parser.
C21_Reached ==
  /\ call.op = "parse"
  /\ call.template = "{% if a %}{% endif %}{% endfor %}"
  /\ result.err.msg = "Unexpected endfor statement"

(***************************************************************************)
(* Accessors of the context that throw                                     *)
(***************************************************************************)

\* What the accessor user.bad of the context throws.
ThrownMessages ==
  {"Getter error", "Getter error: x", "getter error", "boom", "not found",
   "Invalid expression", "dangerous globals", "Database unavailable"}

AccessorHeap(msg) ==
  <<MkObj(<<Prop("user", Ref(2)), Prop("n", Num(1)), Prop("xs", Ref(3))>>),
    MkObj(<<Prop("bad", Thrower(msg))>>), MkArr(<<Num(1)>>)>>

\* Templates in which a variable reading user.bad is evaluated: by a simple
\* path and by an operator expression, at top level, in the body and in the
\* else body of an if, and in the body of a for.
AccessorTemplates ==
  {"{{ user.bad }}", "a{{ user.bad }}b", "{{ user.bad + 1 }}", "{{ !user.bad }}",
   "{% if n %}{{ user.bad }}{% endif %}",
   "{% if missing %}x{% else %}{{ user.bad }}{% endif %}",
   "{% if n %}{{ user.bad + 1 }}{% endif %}",
   "{% for x in xs %}{{ user.bad }}{% endfor %}",
   "{% for x in xs %}{{ user.bad + 1 }}{% endfor %}",
   "{% for x in xs %}{% if n %}{{ user.bad }}{% endif %}{% endfor %}"}

\* Templates in which the variable reading user.bad is never evaluated.
UnreadTemplates ==
  {"{{ n }}", "{% if missing %}{{ user.bad }}{% endif %}",
   "{% for x in none %}{{ user.bad }}{% endfor %}"}

BuildAccessor == \E msg \in ThrownMessages : BuildContext(AccessorHeap(msg), Ref(1))

EvaluateAccessor == \E t \in AccessorTemplates \cup UnreadTemplates : CallEvaluate(t)

NextAccessor == BuildAccessor \/ EvaluateAccessor \/ Release

SpecAccessor == Init /\ [][NextAccessor]_vars

\* C22: when the accessor user.bad throws while a variable is evaluated,
\* evaluate fails with that very error (a plain Error with the accessor's
\* message, tagged to no node), whatever the message, for a simple path and
\* for an operator expression, at top level and inside an if or a for body.
C22_AccessorErrorPropagates ==
  \A msg \in ThrownMessages :
    (call.op = "evaluate" /\ call.template \in AccessorTemplates /\ heap = AccessorHeap(msg))
      => result.err = JsError("Error", msg)

(***************************************************************************)
(* Errors inside the branches of an if                                     *)
(***************************************************************************)

BranchHeaps ==
  {<<MkObj(<<Prop("n", n)>>), MkArr(<<Num(1)>>)>> :
     n \in {Num(1), Num(2), Str("a"), Bool(TRUE), Ref(2)}}

\* A node that fails when it is evaluated, or, the last one, renders.
BranchNodes ==
  {"{{ n + }}", "{{ process }}", "{% for x in n %}{% endfor %}",
   "{% if n + %}x{% endif %}", "{% if process %}x{% endif %}",
   "{% for x in n + %}{% endfor %}", "{{ n }}"}

BranchWraps == {"none", "body", "else", "nested"}

BranchCases == [wrap : BranchWraps, inner : BranchNodes]

\* The node alone, in the body of an if whose condition holds, in the else
\* body of an if whose condition fails to hold, and two ifs deep.
BranchTemplate(c) ==
  CASE c.wrap = "none" -> c.inner
    [] c.wrap = "body" -> "{% if n %}" \o c.inner \o "{% endif %}"
    [] c.wrap = "else" -> "{% if missing %}x{% else %}" \o c.inner \o "{% endif %}"
    [] OTHER -> "{% if n %}a{% if !missing %}" \o c.inner \o "{% endif %}{% endif %}"

BranchConditions == {"n", "missing", "!missing", "n +", "process"}

BuildBranch == \E hp \in BranchHeaps : BuildContext(hp, Ref(1))

EvaluateBranch == \E c \in BranchCases : CallEvaluate(BranchTemplate(c))

NextBranch == BuildBranch \/ EvaluateBranch \/ Release

SpecBranch == Init /\ [][NextBranch]_vars

\* C23: evaluate fails with 'Failed to evaluate if condition: <condition>'
\* only when the evaluation of that condition fails with an error other than
\* the security error; an error raised by a node of the selected body or
\* else body leaves the enclosing if nodes as it is, with its own message and
\* the tag of its own node: the template fails as the node alone fails.
C23_BranchErrorsPassThrough ==
  [][call'.op = "evaluate" =>
       LET m == [h |-> heap, g |-> ambient]
       IN /\ \A cond \in BranchConditions :
               result'.err.msg = "Failed to evaluate if condition: " \o cond
                 => LET e == evaluateExpression(m, cond, call.context)
                    IN Failed(e.err) /\ ~Includes(e.err.msg, "dangerous globals")
          /\ \A c \in BranchCases :
               call'.template = BranchTemplate(c)
                 => result'.err = evaluate(m, frontEnd(c.inner).nodes, call.context).err]_vars

(***************************************************************************)
(* What a for loop iterates                                                *)
(***************************************************************************)

\* A value for the key v of the context: the kind the loop makes of it, the
\* value, the objects it refers to (from address 2 on), the texts of its
\* elements in order, and what typeof says of it.
Iterable(kind, v, objs, elems, type) ==
  [kind |-> kind, v |-> v, objs |-> objs, elems |-> elems, type |-> type]

IterableCases ==
  {Iterable("nullish", Undef, <<>>, <<>>, "undefined"),
   Iterable("nullish", Null, <<>>, <<>>, "object"),
   Iterable("array", Ref(2), <<MkArr(<<>>)>>, <<>>, "object"),
   Iterable("array", Ref(2), <<MkArr(<<Str("a")>>)>>, <<"a">>, "object"),
   Iterable("array", Ref(2), <<MkArr(<<Str("a"), Num(2)>>)>>, <<"a", "2">>, "object"),
   Iterable("array", Ref(2), <<MkArr(<<Str("a"), Str("b"), Str("c")>>)>>,
            <<"a", "b", "c">>, "object"),
   Iterable("arraylike", Ref(2), <<MkObj(<<Prop("length", Num(0))>>)>>, <<>>, "object"),
   Iterable("arraylike", Ref(2),
            <<MkObj(<<Prop("length", Num(2)), Prop("0", Str("a")), Prop("1", Str("b"))>>)>>,
            <<"a", "b">>, "object"),
   Iterable("arraylike", Ref(2),
            <<MkObj(<<Prop("0", Str("a")), Prop("length", Num(1)), Prop("1", Str("z"))>>)>>,
            <<"a">>, "object"),
   Iterable("arraylike", Ref(2),
            <<MkObj(<<Prop("length", Num(2)), Prop("0", Str("a"))>>)>>,
            <<"a", "">>, "object"),
   Iterable("string", Str(""), <<>>, <<>>, "string"),
   Iterable("string", Str("a"), <<>>, <<"a">>, "string"),
   Iterable("string", Str("ab"), <<>>, <<"a", "b">>, "string"),
   Iterable("string", Str("abc"), <<>>, <<"a", "b", "c">>, "string"),
   Iterable("other", Num(0), <<>>, <<>>, "number"),
   Iterable("other", Num(5), <<>>, <<>>, "number"),
   Iterable("other", Bool(TRUE), <<>>, <<>>, "boolean"),
   Iterable("other", Bool(FALSE), <<>>, <<>>, "boolean"),
   Iterable("other", Ref(2), <<MkObj(<<>>)>>, <<>>, "object"),
   Iterable("other", Ref(2), <<MkObj(<<Prop("0", Str("a")), Prop("size", Num(1))>>)>>,
            <<>>, "object"),
   Iterable("other", Ref(2), <<MkObj(<<Prop("length", Str("2")), Prop("0", Str("a"))>>)>>,
            <<>>, "object"),
   Iterable("other", Fn("f"), <<>>, <<>>, "function")}

\* The context {v: <the value>, k: 'K'}, or {k: 'K'} for undefined.
IterableHeap(c) ==
  <<MkObj(IF c.v = Undef THEN <<Prop("k", Str("K"))>>
          ELSE <<Prop("v", c.v), Prop("k", Str("K"))>>)>> \o c.objs

IterableBodies == {"plain", "indexed", "loop", "empty"}

IterableTemplate(body) ==
  CASE body = "plain" -> "{% for x in v %}[{{ x }}]{% endfor %}"
    [] body = "indexed" -> "<{% for x, i in v %}{{ i }}{{ x }}{{ k }};{% endfor %}>"
    [] body = "loop" -> "{% for x in v %}{{ loop.index1 }}/{{ loop.length }} {% endfor %}"
    [] OTHER -> "{% for x in v %}{% endfor %}"

BuildIterable == \E c \in IterableCases : BuildContext(IterableHeap(c), Ref(1))

EvaluateIterable == \E body \in IterableBodies : CallEvaluate(IterableTemplate(body))

NextIterable == BuildIterable \/ EvaluateIterable \/ Release

SpecIterable == Init /\ [][NextIterable]_vars

\* What the body prints in iteration i (from 1) over the element texts.
ElementText(body, elems, i) ==
  CASE body = "plain" -> "[" \o elems[i] \o "]"
    [] body = "indexed" -> IntToStr(i - 1) \o elems[i] \o "K;"
    [] body = "loop" -> IntToStr(i) \o "/" \o IntToStr(Len(elems)) \o " "
    [] OTHER -> ""

ElementsText(body, elems) ==
  (IF body = "indexed" THEN "<" ELSE "")
  \o Join([i \in 1..Len(elems) |-> ElementText(body, elems, i)], "")
  \o (IF body = "indexed" THEN ">" ELSE "")

\* C24: a for loop over null or undefined renders nothing and raises no
\* error; over an array, an object with a numeric length or a string it
\* evaluates its body once per element (per character of a string), in
\* order; over any other value it fails with the evaluation error 'Value is
\* not iterable: <type>'.
C24_Iterables ==
  [][\A c \in IterableCases : \A body \in IterableBodies :
       (call'.op = "evaluate" /\ call'.template = IterableTemplate(body)
          /\ heap = IterableHeap(c))
         => IF c.kind = "other"
              THEN /\ result'.err.cls = "EvaluationError"
                   /\ result'.err.msg = "Value is not iterable: " \o c.type
            ELSE /\ ~Failed(result'.err)
                 /\ result'.out = ElementsText(body, c.elems)]_vars

\* C24, reached: the loop ran once per character of a string, and refused a
\* number.
C24_Reached ==
  /\ call.op = "evaluate"
  /\ call.template = IterableTemplate("indexed")
  /\ heap[1] = MkObj(<<Prop("v", Str("ab")), Prop("k", Str("K"))>>)
  /\ result.out = "<0aK;1bK;>"

(***************************************************************************)
(* A loop whose body changes the sequence it iterates                      *)
(***************************************************************************)

SnapshotHeaps ==
  {<<MkObj(<<Prop("xs", Ref(2)), Prop("k", Str("K"))>>), MkArr(elems)>> :
     elems \in UNION {[1..n -> {Str("a"), Str("b")}] : n \in 0..MaxItems}}

\* What the body does to xs before it prints the item: nothing, remove the
\* last element, append one element in every iteration, append one element
\* in the first iteration.
SnapshotChanges ==
  {"", "{% if xs.pop() %}{% endif %}", "{% if xs.push(k) %}{% endif %}",
   "{% if loop.first && xs.push(k) %}{% endif %}"}

SnapshotTemplate(change) == "{% for x in xs %}" \o change \o "{{ x }} {% endfor %}"

BuildSnapshot == \E hp \in SnapshotHeaps : BuildContext(hp, Ref(1))

RenderSnapshot == \E change \in SnapshotChanges : CallRender(SnapshotTemplate(change))

EvaluateSnapshot == \E change \in SnapshotChanges : CallEvaluate(SnapshotTemplate(change))

NextSnapshot == BuildSnapshot \/ RenderSnapshot \/ EvaluateSnapshot \/ Release

SpecSnapshot == Init /\ [][NextSnapshot]_vars

\* C25: a for loop visits the elements the sequence has when the loop
\* begins, each once and in order, and ends after that many iterations,
\* whatever its body does to the sequence meanwhile.
C25_LoopOverSnapshot ==
  [][(call'.op \in {"render", "evaluate"} /\ call'.template \in {SnapshotTemplate(change) : change \in SnapshotChanges})
       => LET n == IndexCount(heap, 2)
          IN /\ ~Failed(result'.err)
             /\ result'.out = Join([i \in 1..n |-> OwnProp(heap, 2, IntToStr(i - 1)).s \o " "], "")]_vars

(***************************************************************************)
(* Truthiness of the operands of !, && and ||                              *)
(***************************************************************************)

\* Contexts {xs: value}.
OperandHeaps ==
  {ContextOf("xs", v) : v \in {Null, Bool(TRUE), Bool(FALSE), Num(0), Num(1), Str(""), Str("a")}}
  \cup {<<MkObj(<<Prop("xs", Ref(2))>>), o>> :
          o \in {MkArr(<<>>), MkArr(<<Num(1)>>), MkArr(<<Num(0), Num(0)>>), MkObj(<<>>)}}

\* Conditions that have the value of xs, and conditions that negate it.
SameConditions == {"xs", "xs && true", "xs || false", "true && xs", "!!xs"}

NegatedConditions == {"!xs", "!(xs && true)"}

OperandTemplate(cond) == "{% if " \o cond \o " %}T{% else %}F{% endif %}"

BuildOperand == \E hp \in OperandHeaps : BuildContext(hp, Ref(1))

RenderOperand == \E cond \in SameConditions \cup NegatedConditions : CallRender(OperandTemplate(cond))

EvaluateOperand ==
  \E cond \in SameConditions \cup NegatedConditions : CallEvaluate(OperandTemplate(cond))

NextOperand == BuildOperand \/ RenderOperand \/ EvaluateOperand \/ Release

SpecOperand == Init /\ [][NextOperand]_vars

\* C26: the truthiness of the template language, by which an empty sequence
\* is false, holds for the operands of !, && and || as it does for a whole
\* condition: `xs && true` selects the branch `xs` selects, and `!xs` the
\* other one, for xs = [] as for every other value.
C26_OperandTruthiness ==
  [][call'.op \in {"render", "evaluate"} =>
       LET plain == evaluate([h |-> heap, g |-> ambient],
                             frontEnd(OperandTemplate("xs")).nodes, call.context)
       IN /\ ~Failed(result'.err)
          /\ plain.out \in {"T", "F"}
          /\ \A cond \in SameConditions :
               call'.template = OperandTemplate(cond) => result'.out = plain.out
          /\ \A cond \in NegatedConditions :
               call'.template = OperandTemplate(cond)
                 => result'.out = (IF plain.out = "T" THEN "F" ELSE "T")]_vars

(***************************************************************************)
(* The order of the tokens                                                 *)
(***************************************************************************)

\* The source text of a token made from SpanPieces.
SourceOf(token) ==
  CASE token.type = "TEXT" ->
         ReplaceAll(ReplaceAll(token.value, "{", "\\{"), "}", "\\}")
    [] token.type = "VARIABLE" -> "{{ " \o token.value \o " }}"
    [] token.type = "IF_START" -> "{% if " \o token.value \o " %}"
    [] OTHER -> "{% endif %}"

\* C27: in every token sequence tokenize returns, each token's span is well
\* formed and starts at or after the end of the token before it, the tokens
\* stand in the order of their source text (their sources, joined, are the
\* template), no TEXT token is empty and no two TEXT tokens are adjacent.
C27_TokensInOrder ==
  call.op \in {"parse", "render"} =>
    LET t == tokenize(call.template)
        n == Len(t.tokens)
    IN ~Failed(t.err) =>
         /\ \A k \in 1..n : /\ 0 <= t.tokens[k].start
                            /\ t.tokens[k].start < t.tokens[k].end
                            /\ t.tokens[k].type = "TEXT" => t.tokens[k].value # ""
         /\ \A k \in 2..n : /\ t.tokens[k - 1].end <= t.tokens[k].start
                            /\ ~(t.tokens[k - 1].type = "TEXT" /\ t.tokens[k].type = "TEXT")
         /\ Join([k \in 1..n |-> SourceOf(t.tokens[k])], "") = call.template

\* C27, reached: a text with an escaped brace, a variable and a text again.
C27_Reached ==
  /\ call.op = "parse"
  /\ call.template = "\\{{{ x }}ab"
  /\ LET t == tokenize(call.template)
     IN /\ ~Failed(t.err)
        /\ Len(t.tokens) = 3
        /\ t.tokens[1].type = "TEXT" /\ t.tokens[1].value = "{"
        /\ t.tokens[2].start = t.tokens[1].end
        /\ t.tokens[3].type = "TEXT"

(***************************************************************************)
(* parse, step by step                                                     *)
(***************************************************************************)

\* A call of parse in progress: the cursor `current` (0-based, as in the
\* code), the calls of parseNodes, parseIfStatement and parseForLoop that
\* have not returned, outermost first, each with the place it has reached and
\* the cursor of the token that opened it, and the cursors of the tokens
\* consumed so far, in the order of their consumption.
Frame(fn, stage, opened) == [fn |-> fn, stage |-> stage, opened |-> opened]

\* What parseIfStatement and parseForLoop find when they look at the payload
\* of a token: a condition that is not blank, a header of one of the two
\* forms.  The tokens do not change while parse runs.
wellFormed(token) ==
  CASE token.type = "IF_START" -> Trim(token.value) # ""
    [] token.type = "FOR_START" -> forHeader(token.value).ok
    [] OTHER -> TRUE

Parsing(tokens) ==
  [op |-> "parsing", template |-> "", expr |-> "", context |-> Undef, tokens |-> tokens,
   wellFormed |-> [k \in 1..Len(tokens) |-> wellFormed(tokens[k])],
   current |-> 0, frames |-> <<Frame("parseNodes", "", 0)>>, consumed |-> <<>>,
   err |-> NoErr]

\* current++ of a parser that notes the token and leaves the cursor on it.
advanceNot(c) == [c EXCEPT !.consumed = Append(@, c.current)]

\* current++
advance(c) == [c EXCEPT !.current = @ + 1, !.consumed = Append(@, c.current)]

\* A call is made, the innermost call returns, the parser throws.
enter(c, frame) == [c EXCEPT !.frames = Append(@, frame)]

leave(c) == [c EXCEPT !.frames = SubSeq(@, 1, Len(@) - 1)]

throw(c, err) == [c EXCEPT !.op = "parsed", !.frames = <<>>, !.err = err]

\* The innermost call goes on from another place.
goto(c, stage) == [c EXCEPT !.frames[Len(c.frames)].stage = stage]

\* One step of parse: one turn of the loop of parseNodes, one of the stretches
\* of parseIfStatement and parseForLoop between two calls of parseNodes, or,
\* when the outermost parseNodes has returned, the check of the token left.
parseStep(c) ==
  LET tokens == c.tokens
      atEnd == c.current >= Len(tokens)
      token == tokens[c.current + 1]
      top == c.frames[Len(c.frames)]
      opener == tokens[top.opened + 1]
  IN IF Len(c.frames) = 0
       THEN IF ~atEnd /\ token.type = "IF_END"
              THEN throw(c, ParseErrorAt("Unexpected endif statement", token))
            ELSE IF ~atEnd /\ token.type = "FOR_END"
              THEN throw(c, ParseErrorAt("Unexpected endfor statement", token))
            ELSE IF ~atEnd /\ token.type = "ELSE"
              THEN throw(c, ParseErrorAt("Unexpected else statement", token))
            ELSE [c EXCEPT !.op = "parsed"]
     ELSE IF top.fn = "parseNodes"
       THEN IF atEnd THEN leave(c)
            ELSE IF token.type \in {"TEXT", "VARIABLE"} THEN advance(c)
            ELSE IF token.type = "IF_START"
              THEN enter(c, Frame("parseIfStatement", "start", c.current))
            ELSE IF token.type = "FOR_START"
              THEN enter(c, Frame("parseForLoop", "start", c.current))
            ELSE IF token.type \in {"IF_END", "FOR_END", "ELSE"} THEN leave(c)
            ELSE throw(c, ParseErrorAt("Unexpected token: " \o token.type, token))
     ELSE IF top.fn = "parseIfStatement"
       THEN IF top.stage = "start"
              THEN IF ~c.wellFormed[c.current + 1]
                     THEN throw(advance(c), ParseErrorAt("Empty if condition", token))
                   ELSE enter(goto(advance(c), "body"), Frame("parseNodes", "", c.current))
            ELSE IF top.stage = "body" /\ ~atEnd /\ token.type = "ELSE"
              THEN enter(goto(advance(c), "else"), Frame("parseNodes", "", c.current))
            ELSE IF atEnd \/ token.type # "IF_END"
              THEN throw(c, ParseErrorAt("Unmatched if statement", opener))
            ELSE leave(advance(c))
     ELSE IF top.stage = "start"
       THEN IF ~c.wellFormed[c.current + 1]
              THEN throw(advance(c), ParseErrorAt("Invalid for loop syntax", token))
            ELSE enter(goto(advance(c), "body"), Frame("parseNodes", "", c.current))
     ELSE IF atEnd \/ token.type # "FOR_END"
       THEN throw(c, ParseErrorAt("Unmatched for loop", opener))
     ELSE leave(advance(c))

\* Token sequences with a payload parse refuses, and with a token of a type
\* parse does not know.
RefusedSequences ==
  {<<Token("IF_START", " ", 0, 1), Token("IF_END", "", 1, 2)>>,
   <<Token("TEXT", "t", 0, 1), Token("FOR_START", "x of xs", 1, 2), Token("FOR_END", "", 2, 3)>>,
   <<Token("VARIABLE", "v", 0, 1), Token("COMMENT", "", 1, 2), Token("TEXT", "t", 2, 3)>>}

\* The caller calls parse(tokens).
BeginParse(tokens) ==
  /\ call = Idle
  /\ call' = Parsing(tokens)
  /\ UNCHANGED <<heap, ambient, result>>

\* parse takes its next step; with its last it returns or throws.
ParseStep ==
  /\ call.op = "parsing"
  /\ call' = parseStep(call)
  /\ result' = [out |-> "", v |-> Undef, err |-> call'.err]
  /\ UNCHANGED <<heap, ambient>>

\* The caller is done with what parse returned.
ParseDone == call.op = "parsed" /\ Release

NextParser ==
  \/ \E tokens \in TokenSequences \cup RefusedSequences : BeginParse(tokens)
  \/ ParseStep
  \/ ParseDone

\* A call of parse, once made, runs on until it returns or throws.
SpecParser == Init /\ [][NextParser]_vars /\ WF_vars(ParseStep)

\* The calls of parseNodes in progress, and the if and for blocks open.
NestedParseNodes(c) == Cardinality({k \in 1..Len(c.frames) : c.frames[k].fn = "parseNodes"})

OpenBlocks(c) == Cardinality({k \in 1..Len(c.frames) : c.frames[k].fn # "parseNodes"})

\* C28: parse terminates on every token sequence: the cursor never moves
\* backwards and never passes the end, every token is consumed at most once
\* (the tokens consumed are those before the cursor, in order), the calls of
\* parseNodes in progress are never more than the open if and for blocks
\* plus one, which are never more than the opening tokens of the input, and
\* every call of parse returns or throws, with what parse gives for the
\* tokens.
C28_ParseTerminates ==
  /\ [](call.op \in {"parsing", "parsed"} =>
          /\ call.current <= Len(call.tokens)
          /\ call.consumed = [k \in 1..call.current |-> k - 1]
          /\ NestedParseNodes(call) <= OpenBlocks(call) + 1
          /\ OpenBlocks(call) <= Cardinality({k \in 1..Len(call.tokens) :
                                               call.tokens[k].type \in {"IF_START", "FOR_START"}})
          /\ call.op = "parsed" => result.err = parse(call.tokens).err)
  /\ [][(call.op = "parsing" /\ call'.op \in {"parsing", "parsed"})
          => call'.current \in {call.current, call.current + 1}]_vars
  /\ (call.op = "parsing") ~> (call.op = "parsed")

\* C28, reached: parse returned after it had been two blocks deep, with
\* three calls of parseNodes in progress.
C28_Reached ==
  /\ call.op = "parsing"
  /\ Len(call.tokens) = 4
  /\ OpenBlocks(call) = 2
  /\ NestedParseNodes(call) = 3
  /\ call.current = 2

(***************************************************************************)
(* Expressions that are never evaluated                                    *)
(***************************************************************************)

\* Contexts {off, on, empty: [], nul: null, a: 1} with off false in the
\* template sense and on true.
DormantHeaps ==
  {<<MkObj(<<Prop("off", off), Prop("on", on), Prop("empty", Ref(2)), Prop("nul", Null),
             Prop("a", Num(1))>>), MkArr(<<>>)>> :
     off \in {Bool(FALSE), Num(0), Str("")}, on \in {Bool(TRUE), Str("y")}}

\* Nodes whose expression is denied or is no expression: a variable, the
\* condition of an if, the iterable of a for.
DormantNodes ==
  {"{{ process }}", "{{ a.constructor }}", "{{ a + }}", "{{ a b }}",
   "{% if eval %}x{% endif %}", "{% if a + %}x{% endif %}",
   "{% for y in global %}z{% endfor %}", "{% for y in (a %}z{% endfor %}"}

DormantWraps == {"none", "if", "else", "missing", "empty", "null"}

\* The node at top level, in the body of an if that is not selected, in the
\* else body when the body is selected, and in the body of a loop over an
\* undefined, an empty and a null sequence.
DormantTemplate(wrap, node) ==
  CASE wrap = "none" -> node
    [] wrap = "if" -> "{% if off %}" \o node \o "{% endif %}"
    [] wrap = "else" -> "{% if on %}ok{% else %}" \o node \o "{% endif %}"
    [] wrap = "missing" -> "{% for x in none %}" \o node \o "{% endfor %}"
    [] wrap = "empty" -> "{% for x in empty %}" \o node \o "{% endfor %}"
    [] OTHER -> "{% for x in nul %}" \o node \o "{% endfor %}"

BuildDormant == \E hp \in DormantHeaps : BuildContext(hp, Ref(1))

RenderDormant ==
  \E wrap \in DormantWraps, node \in DormantNodes : CallRender(DormantTemplate(wrap, node))

EvaluateDormant ==
  \E wrap \in DormantWraps, node \in DormantNodes : CallEvaluate(DormantTemplate(wrap, node))

NextDormant == BuildDormant \/ RenderDormant \/ EvaluateDormant \/ Release

SpecDormant == Init /\ [][NextDormant]_vars

\* C29: an expression is checked against the denylist and for its syntax
\* when it is evaluated and not before: a template whose denied or invalid
\* expression stands in a branch of an if that is not selected, or in the
\* body of a loop over an empty, null or undefined sequence, renders without
\* error, though the same node fails at top level, where it is evaluated.
C29_CheckedWhenEvaluated ==
  call.op \in {"render", "evaluate"} =>
    \A wrap \in DormantWraps, node \in DormantNodes :
      call.template = DormantTemplate(wrap, node)
        => IF wrap = "none" THEN Failed(result.err)
           ELSE /\ ~Failed(result.err)
                /\ result.out = (IF wrap = "else" THEN "ok" ELSE "")

\* C29, reached: a denied name in the else body of an if whose body was
\* selected.
C29_Reached ==
  /\ call.op = "render"
  /\ call.template = "{% if on %}ok{% else %}{{ process }}{% endif %}"
  /\ result.out = "ok"
  /\ ~Failed(result.err)

(***************************************************************************)
(* Block markers with an unknown payload                                   *)
(***************************************************************************)

\* Payloads of a block marker: words that are no keyword, keywords followed
\* by what their form does not take, and, last, the forms themselves.
UnknownPayloads ==
  {"foo", "endfi", "iffy n", "IF n", "elif n", "else n", "else if n", "endif n",
   "end", "fore x in xs", "endfor x", "end if", "elseif", "endfor endif"}

KnownPayloads == {"if n", "else", "endif", "for x in xs", "endfor"}

\* Whether the payload has one of the forms `if <cond>`, `else`, `endif`,
\* `for <spec>`, `endfor`.
RecognizedForm(payload) ==
  \/ payload \in {"else", "endif", "endfor"}
  \/ StartsWith(payload, "if ") /\ Len(payload) > 3
  \/ StartsWith(payload, "for ") /\ Len(payload) > 4

\* The closed marker of a payload, with one space, no space and two spaces
\* and one around the payload.
MarkerSpacings == {"one", "none", "two"}

MarkerOf(payload, spacing) ==
  CASE spacing = "one" -> "{% " \o payload \o " %}"
    [] spacing = "none" -> "{%" \o payload \o "%}"
    [] OTHER -> "{%  " \o payload \o " %}"

\* What stands around the marker: nothing, text, a variable before it, a
\* whole if block after it.
MarkerPlaces == {"alone", "text", "variable", "block"}

UnknownTemplate(place, marker) ==
  CASE place = "alone" -> marker
    [] place = "text" -> "a " \o marker \o " b"
    [] place = "variable" -> "{{ n }}" \o marker
    [] OTHER -> marker \o "{% if n %}x{% endif %}"

\* What render is to give for the template: the marker as it stands.
UnknownOutput(place, marker) ==
  CASE place = "alone" -> marker
    [] place = "text" -> "a " \o marker \o " b"
    [] place = "variable" -> "1" \o marker
    [] OTHER -> marker \o "x"

UnknownCases ==
  [payload : UnknownPayloads, spacing : MarkerSpacings, place : MarkerPlaces]
  \cup [payload : KnownPayloads, spacing : {"one"}, place : {"alone"}]

CaseTemplate(c) == UnknownTemplate(c.place, MarkerOf(c.payload, c.spacing))

BuildUnknown == BuildContext(<<MkObj(<<Prop("n", Num(1)), Prop("xs", Ref(2))>>), MkArr(<<>>)>>, Ref(1))

ParseUnknown == \E c \in UnknownCases : CallParse(CaseTemplate(c))

RenderUnknown == \E c \in UnknownCases : CallRender(CaseTemplate(c))

NextUnknown == BuildUnknown \/ ParseUnknown \/ RenderUnknown \/ Release

SpecUnknown == Init /\ [][NextUnknown]_vars

\* C30: a closed block marker whose payload is not blank and has none of
\* the forms `if <cond>`, `else`, `endif`, `for <spec>`, `endfor` raises no
\* error: tokenize gives it as part of a TEXT token, and render puts it out
\* as it stands.
C30_UnknownMarkerIsText ==
  \A c \in UnknownCases :
    (call.op \in {"parse", "render"} /\ call.template = CaseTemplate(c)
       /\ ~RecognizedForm(c.payload))
      => LET t == tokenize(call.template)
             marker == MarkerOf(c.payload, c.spacing)
         IN /\ ~Failed(t.err)
            /\ \E k \in 1..Len(t.tokens) :
                 /\ t.tokens[k].type = "TEXT"
                 /\ Includes(t.tokens[k].value, marker)
            /\ \A k \in 1..Len(t.tokens) :
                 t.tokens[k].type # "TEXT" => t.tokens[k].value \in {"n", ""}
            /\ ~Failed(result.err)
            /\ call.op = "render" => result.out = UnknownOutput(c.place, marker)

\* C30, reached: render put out {% endfi %} as text, after a variable.
C30_Reached ==
  /\ call.op = "render"
  /\ call.template = "{{ n }}{% endfi %}"
  /\ result.out = "1{% endfi %}"

====
